---- MODULE Spec2Model ----
(***************************************************************************)
(* 1lm: natural language -> shell one-liner.                               *)
(*                                                                         *)
(* The model follows one run of main.run(): configuration, the bubbletea   *)
(* program with its three models (InputModel, LoadingModel,                *)
(* SelectorModel), the two background commands (loadOptions,               *)
(* evaluateSafety), and the output handler.                                *)
(*                                                                         *)
(* bubbletea runs every tea.Cmd in its own goroutine and feeds the message *)
(* it returns back into the event loop; tea.Quit is such a command (it     *)
(* returns a QuitMsg).  Messages that are in flight are therefore state of *)
(* the model, and the event loop may handle any of them next.              *)
(*                                                                         *)
(* Slices are modelled as references into a heap of arrays so that         *)
(* &m.options[m.cursor] and copy() keep their aliasing.                    *)
(*                                                                         *)
(* GenSpec is a second specification in which the commands and safety     *)
(* packages are called directly, as their tests call them, with any query, *)
(* batch, client answer and safety outcome; it also covers                 *)
(* GenerateWithProgress of the older commands package.                     *)
(*                                                                         *)
(* ProgressSpec adds the stage-change notification of the Progress Stage   *)
(* to the run; FairSpec is the run with weak fairness for the delivery of  *)
(* messages by the event loop, for the properties of the form "eventually".*)
(*                                                                         *)
(* Left out: messages that only change the rendering (tea.WindowSizeMsg,   *)
(* the blink of the text input), the View methods' styling, and a failure  *)
(* of the terminal runtime itself (the error return of p.Run()).           *)
(***************************************************************************)
EXTENDS Integers, Sequences, FiniteSets, TLC

\* ---------------------------------------------------------------- bounds
MaxOptions == 2
MaxQueryLen == 1
NumFrames == 2

\* ------------------------------------------------------------- constants
NoErr == "nil"

RiskNone == 0
RiskLow == 1
RiskHigh == 2

\* array identities on the heap; Nil is the nil slice / nil pointer
Nil == 0
GenArr == 1
EvalArr == 2

ModeClipboard == "clipboard"
ModeShellFunction == "shell-function"
ModeStdout == "stdout"

\* ------------------------------------------------------------ data model
\* llm.CommandOption values the generation client may answer with
CommandOption ==
  { [Title |-> "list", Command |-> "ls", Description |-> "d1"],
    [Title |-> "remove", Command |-> "rm", Description |-> "d2"] }

\* *safety.RiskInfo; present = FALSE is the nil pointer
NilRisk == [present |-> FALSE, Level |-> RiskNone, Message |-> ""]

RiskInfo(level, message) == [present |-> TRUE, Level |-> level, Message |-> message]

\* commands.Option
Option(title, command, description, risk) ==
  [Title |-> title, Command |-> command, Description |-> description, Risk |-> risk]

\* pointer to one element of an array (&m.options[i]); NilPtr is nil
NilPtr == [arr |-> Nil, idx |-> 0]

Ptr(a, i) == [arr |-> a, idx |-> i]

\* the heap before any slice was made
EmptyHeap == [a \in {GenArr, EvalArr} |-> <<>>]

\* a slice header read through the heap (a nil slice has length 0)
Slice(h, a) == IF a = Nil THEN <<>> ELSE h[a]

\* *p for a non-nil element pointer (indices are 0-based as in Go)
Deref(h, p) == h[p.arr][p.idx + 1]

\* ------------------------------------------------- the two external calls
\* what a llm.Client may return from GenerateOptions: (Response, Err)
ClientResponses ==
  { [Response |-> r, Err |-> e] :
      r \in UNION { [1..n -> CommandOption] : n \in 0..MaxOptions },
      e \in {NoErr, "API error"} }

\* safety.CommandRisk records of one safety response
CommandRisk == [RiskLevel : {"none", "low", "high"}, Reason : {"why"}]

\* what the safety API call may produce
SafetyOutcomes ==
  { [kind |-> k, Evaluations |-> <<>>] : k \in {"callfail", "nocontent", "notext", "badjson"} }
  \cup
  { [kind |-> "ok", Evaluations |-> ev] :
      ev \in UNION { [1..n -> CommandRisk] : n \in 0..MaxOptions } }

\* -------------------------------------------------------- safety package
\* parseRiskLevel as it would be if an unrecognized level were rated high
parseRiskLevel_UnknownIsHigh(level) ==
  CASE level = "low" -> RiskLow
    [] level = "none" -> RiskNone
    [] OTHER -> RiskHigh

\* parseRiskLevel; RiskNone is the result of the default branch
parseRiskLevel(level) ==
  CASE level = "low" -> RiskLow
    [] level = "high" -> RiskHigh
    [] OTHER -> RiskNone

\* Evaluate as it would be with the client check ahead of the empty check
Evaluate_ClientCheckFirst(commands, clientIsNil, api) ==
  IF clientIsNil
    THEN [risks |-> <<>>, err |-> "evaluator client is nil", calls |-> 0]
  ELSE IF Len(commands) = 0 THEN [risks |-> <<>>, err |-> NoErr, calls |-> 0]
  ELSE IF api.kind # "ok"
    THEN [risks |-> <<>>, err |-> "API call failed", calls |-> 1]
  ELSE IF Len(api.Evaluations) # Len(commands)
    THEN [risks |-> <<>>, err |-> "unexpected number of evaluations", calls |-> 1]
  ELSE [risks |-> [i \in 1..Len(commands) |->
                     LET level == parseRiskLevel(api.Evaluations[i].RiskLevel)
                     IN IF level = RiskNone THEN NilRisk
                        ELSE RiskInfo(level, api.Evaluations[i].Reason)],
        err |-> NoErr, calls |-> 1]

\* Evaluate as it would be without the comparison of the two lengths
Evaluate_NoLengthCheck(commands, clientIsNil, api) ==
  IF Len(commands) = 0 THEN [risks |-> <<>>, err |-> NoErr, calls |-> 0]
  ELSE IF clientIsNil
    THEN [risks |-> <<>>, err |-> "evaluator client is nil", calls |-> 0]
  ELSE IF api.kind # "ok"
    THEN [risks |-> <<>>, err |-> "API call failed", calls |-> 1]
  ELSE [risks |-> [i \in 1..Len(api.Evaluations) |->
                     LET level == parseRiskLevel(api.Evaluations[i].RiskLevel)
                     IN IF level = RiskNone THEN NilRisk
                        ELSE RiskInfo(level, api.Evaluations[i].Reason)],
        err |-> NoErr, calls |-> 1]

\* Evaluator.Evaluate: risks is a sequence of *RiskInfo, nil when err is set;
\* calls counts the external safety calls it made
Evaluate(commands, clientIsNil, api) ==
  IF Len(commands) = 0 THEN [risks |-> <<>>, err |-> NoErr, calls |-> 0]
  ELSE IF clientIsNil
    THEN [risks |-> <<>>, err |-> "evaluator client is nil", calls |-> 0]
  ELSE IF api.kind = "callfail"
    THEN [risks |-> <<>>, err |-> "API call failed", calls |-> 1]
  ELSE IF api.kind = "nocontent"
    THEN [risks |-> <<>>, err |-> "empty response from API", calls |-> 1]
  ELSE IF api.kind = "notext"
    THEN [risks |-> <<>>, err |-> "no text content in response", calls |-> 1]
  ELSE IF api.kind = "badjson"
    THEN [risks |-> <<>>, err |-> "failed to parse response", calls |-> 1]
  ELSE IF Len(api.Evaluations) # Len(commands)
    THEN [risks |-> <<>>, err |-> "unexpected number of evaluations", calls |-> 1]
  ELSE [risks |-> [i \in 1..Len(commands) |->
                     LET level == parseRiskLevel(api.Evaluations[i].RiskLevel)
                     IN IF level = RiskNone THEN NilRisk
                        ELSE RiskInfo(level, api.Evaluations[i].Reason)],
        err |-> NoErr, calls |-> 1]

\* ------------------------------------------------------ commands package
\* Generate as it would be with the empty batch rejected
Generate_EmptyIsError(resp) ==
  IF resp.Err # NoErr \/ Len(resp.Response) = 0
    THEN [options |-> <<>>, isNil |-> TRUE, err |-> "failed to generate options",
          evals |-> 0]
    ELSE [options |-> [i \in 1..Len(resp.Response) |->
                         Option(resp.Response[i].Title, resp.Response[i].Command,
                                resp.Response[i].Description, NilRisk)],
          isNil |-> FALSE, err |-> NoErr, evals |-> 0]

\* Generate as it would be with the safety pass chained behind the
\* generation call
Generate_WithSafety(resp) ==
  IF resp.Err # NoErr
    THEN [options |-> <<>>, isNil |-> TRUE, err |-> "failed to generate options",
          evals |-> 0]
    ELSE [options |-> [i \in 1..Len(resp.Response) |->
                         Option(resp.Response[i].Title, resp.Response[i].Command,
                                resp.Response[i].Description,
                                IF resp.Response[i].Command = "rm"
                                  THEN RiskInfo(RiskHigh, "why") ELSE NilRisk)],
          isNil |-> FALSE, err |-> NoErr, evals |-> 1]

\* Generate as it would be with title and description filled in crosswise
Generate_SwapFields(resp) ==
  IF resp.Err # NoErr
    THEN [options |-> <<>>, isNil |-> TRUE, err |-> "failed to generate options",
          evals |-> 0]
    ELSE [options |-> [i \in 1..Len(resp.Response) |->
                         Option(resp.Response[i].Description, resp.Response[i].Command,
                                resp.Response[i].Title, NilRisk)],
          isNil |-> FALSE, err |-> NoErr, evals |-> 0]

\* Generator.Generate: options is the fresh slice, isNil tells a nil slice,
\* evals counts the invocations of Evaluator.Evaluate it made
Generate(resp) ==
  IF resp.Err # NoErr
    THEN [options |-> <<>>, isNil |-> TRUE, err |-> "failed to generate options",
          evals |-> 0]
    ELSE [options |-> [i \in 1..Len(resp.Response) |->
                         Option(resp.Response[i].Title, resp.Response[i].Command,
                                resp.Response[i].Description, NilRisk)],
          isNil |-> FALSE, err |-> NoErr, evals |-> 0]

\* EvaluateSafety as it would be if flagged candidates were built anew
\* from command and risk instead of being copied
EvaluateSafety_Rebuild(h, a, clientIsNil, api) ==
  LET options == Slice(h, a)
      cmds == [i \in 1..Len(options) |-> options[i].Command]
      r == Evaluate(cmds, clientIsNil, api)
      result == [i \in 1..Len(options) |->
                   IF i <= Len(r.risks) /\ r.risks[i].present /\ r.risks[i].Level # RiskNone
                     THEN Option(options[i].Title, options[i].Command, "", r.risks[i])
                     ELSE options[i]]
  IN IF r.err # NoErr
       THEN [heap |-> h, options |-> Nil, err |-> r.err, evals |-> 1,
             apiCalls |-> r.calls]
       ELSE [heap |-> [h EXCEPT ![EvalArr] = result], options |-> EvalArr, err |-> NoErr,
             evals |-> 1, apiCalls |-> r.calls]

\* EvaluateSafety as it would be if the risks were written into the batch
\* it was given (as GenerateWithProgress does with its own batch)
EvaluateSafety_InPlace(h, a, clientIsNil, api) ==
  LET options == Slice(h, a)
      cmds == [i \in 1..Len(options) |-> options[i].Command]
      r == Evaluate(cmds, clientIsNil, api)
      result == [i \in 1..Len(options) |->
                   IF i <= Len(r.risks) /\ r.risks[i].present /\ r.risks[i].Level # RiskNone
                     THEN [options[i] EXCEPT !.Risk = r.risks[i]]
                     ELSE options[i]]
  IN IF r.err # NoErr
       THEN [heap |-> h, options |-> Nil, err |-> r.err, evals |-> 1,
             apiCalls |-> r.calls]
       ELSE [heap |-> IF a = Nil THEN h ELSE [h EXCEPT ![a] = result],
             options |-> a, err |-> NoErr, evals |-> 1, apiCalls |-> r.calls]

\* EvaluateSafety as it would be if the evaluator's answer replaced the risk
\* field in every case, a "none" clearing it
EvaluateSafety_ClearOnNone(h, a, clientIsNil, api) ==
  LET options == Slice(h, a)
      cmds == [i \in 1..Len(options) |-> options[i].Command]
      r == Evaluate(cmds, clientIsNil, api)
      result == [i \in 1..Len(options) |->
                   IF i <= Len(r.risks)
                     THEN [options[i] EXCEPT !.Risk = r.risks[i]]
                     ELSE options[i]]
  IN IF r.err # NoErr
       THEN [heap |-> h, options |-> Nil, err |-> r.err, evals |-> 1,
             apiCalls |-> r.calls]
       ELSE [heap |-> [h EXCEPT ![EvalArr] = result], options |-> EvalArr, err |-> NoErr,
             evals |-> 1, apiCalls |-> r.calls]

\* EvaluateSafety as it would be if a flagged candidate were appended to the
\* copy instead of written at its index
EvaluateSafety_Append(h, a, clientIsNil, api) ==
  LET options == Slice(h, a)
      cmds == [i \in 1..Len(options) |-> options[i].Command]
      r == Evaluate(cmds, clientIsNil, api)
      flagged == SelectSeq([i \in 1..Len(r.risks) |->
                              [options[i] EXCEPT !.Risk = r.risks[i]]],
                           LAMBDA o : o.Risk.present /\ o.Risk.Level # RiskNone)
  IN IF r.err # NoErr
       THEN [heap |-> h, options |-> Nil, err |-> r.err, evals |-> 1,
             apiCalls |-> r.calls]
       ELSE [heap |-> [h EXCEPT ![EvalArr] = options \o flagged], options |-> EvalArr,
             err |-> NoErr, evals |-> 1, apiCalls |-> r.calls]

\* EvaluateSafety as it would be if a candidate that already carries a risk
\* kept it whatever the evaluator reports
EvaluateSafety_KeepExisting(h, a, clientIsNil, api) ==
  LET options == Slice(h, a)
      cmds == [i \in 1..Len(options) |-> options[i].Command]
      r == Evaluate(cmds, clientIsNil, api)
      result == [i \in 1..Len(options) |->
                   IF i <= Len(r.risks) /\ r.risks[i].present /\ r.risks[i].Level # RiskNone
                      /\ ~options[i].Risk.present
                     THEN [options[i] EXCEPT !.Risk = r.risks[i]]
                     ELSE options[i]]
  IN IF r.err # NoErr
       THEN [heap |-> h, options |-> Nil, err |-> r.err, evals |-> 1,
             apiCalls |-> r.calls]
       ELSE [heap |-> [h EXCEPT ![EvalArr] = result], options |-> EvalArr, err |-> NoErr,
             evals |-> 1, apiCalls |-> r.calls]

\* Generator.EvaluateSafety on the slice a of heap h: the heap afterwards,
\* the returned slice, the returned error, the invocations of
\* Evaluator.Evaluate and the external safety calls it made
EvaluateSafety(h, a, clientIsNil, api) ==
  LET options == Slice(h, a)
      cmds == [i \in 1..Len(options) |-> options[i].Command]
      r == Evaluate(cmds, clientIsNil, api)
      result == [i \in 1..Len(options) |->
                   IF i <= Len(r.risks) /\ r.risks[i].present /\ r.risks[i].Level # RiskNone
                     THEN [options[i] EXCEPT !.Risk = r.risks[i]]
                     ELSE options[i]]
  IN IF r.err # NoErr
       THEN [heap |-> h, options |-> Nil, err |-> r.err, evals |-> 1,
             apiCalls |-> r.calls]
       ELSE [heap |-> [h EXCEPT ![EvalArr] = result], options |-> EvalArr, err |-> NoErr,
             evals |-> 1, apiCalls |-> r.calls]

\* llm.MockClient as a test builds it from a preset answer; Calls counts the
\* GenerateOptions calls it has received
MockClient(resp) ==
  [Response |-> resp.Response, Err |-> resp.Err, LastQuery |-> <<>>, Calls |-> 0]

\* MockClient.GenerateOptions: records the query, answers the preset
MockGenerateOptions(m, query) ==
  [client |-> [m EXCEPT !.LastQuery = query, !.Calls = m.Calls + 1],
   Response |-> m.Response, Err |-> m.Err]

\* the generation call as it would be if a failed call were tried again
GenerateOptionsCall_Retry(m, query) ==
  LET c == MockGenerateOptions(m, query)
  IN IF c.Err # NoErr THEN MockGenerateOptions(c.client, query) ELSE c

\* g.client.GenerateOptions(ctx, query), the first statement of Generate
\* and of GenerateWithProgress
GenerateOptionsCall(m, query) == MockGenerateOptions(m, query)

\* Generator.Generate of a Generator whose client is the MockClient m
GenerateWith(m, query) ==
  LET c == GenerateOptionsCall(m, query)
      g == Generate([Response |-> c.Response, Err |-> c.Err])
  IN [client |-> c.client, options |-> g.options, isNil |-> g.isNil, err |-> g.err,
      evals |-> g.evals]

\* ProgressStage
StageGenerating == 0

StageEvaluating == 1

\* GenerateWithProgress up to the converted batch
GWPGenerate(m, query) ==
  LET c == GenerateOptionsCall(m, query)
  IN IF c.Err # NoErr
       THEN [client |-> c.client, options |-> <<>>, isNil |-> TRUE,
             err |-> "failed to generate options"]
       ELSE [client |-> c.client,
             options |-> [i \in 1..Len(c.Response) |->
                            Option(c.Response[i].Title, c.Response[i].Command,
                                   c.Response[i].Description, NilRisk)],
             isNil |-> FALSE, err |-> NoErr]

\* the notification step as it would be if the start of each stage were
\* reported
GWPProgress_BothStages(hasProgress) ==
  IF hasProgress THEN <<StageGenerating, StageEvaluating>> ELSE <<>>

\* GenerateWithProgress's notification step: the stages the callback is
\* invoked with, in order (none when progress is nil)
GWPProgress(hasProgress) == IF hasProgress THEN <<StageEvaluating>> ELSE <<>>

\* the safety step as it would be if the evaluator's error were returned
GWPEvaluate_Propagate(options, clientIsNil, api) ==
  LET cmds == [i \in 1..Len(options) |-> options[i].Command]
      r == Evaluate(cmds, clientIsNil, api)
  IN [options |-> IF r.err # NoErr THEN <<>>
                  ELSE [i \in 1..Len(options) |->
                          IF r.risks[i].present /\ r.risks[i].Level # RiskNone
                            THEN [options[i] EXCEPT !.Risk = r.risks[i]]
                            ELSE options[i]],
      isNil |-> r.err # NoErr, err |-> r.err, evals |-> 1, apiCalls |-> r.calls]

\* GenerateWithProgress from the safety step to the return: the evaluator's
\* error is swallowed, its risks are written into the batch in place
GWPEvaluate(options, clientIsNil, api) ==
  LET cmds == [i \in 1..Len(options) |-> options[i].Command]
      r == Evaluate(cmds, clientIsNil, api)
  IN [options |-> IF r.err # NoErr THEN options
                  ELSE [i \in 1..Len(options) |->
                          IF r.risks[i].present /\ r.risks[i].Level # RiskNone
                            THEN [options[i] EXCEPT !.Risk = r.risks[i]]
                            ELSE options[i]],
      isNil |-> FALSE, err |-> NoErr, evals |-> 1, apiCalls |-> r.calls]

\* capacity of the progress channel between the pipeline and the listener
ProgressChanCap == 1

\* the callback as it would be with a plain (blocking) channel send
ProgressSend_Blocking(ch, receiving, st) ==
  IF receiving THEN [chan |-> ch, received |-> <<st>>, dropped |-> 0, blocks |-> FALSE]
  ELSE IF Len(ch) < ProgressChanCap
    THEN [chan |-> Append(ch, st), received |-> <<>>, dropped |-> 0, blocks |-> FALSE]
  ELSE [chan |-> ch, received |-> <<>>, dropped |-> 0, blocks |-> TRUE]

\* the Progress Stage's stage-change callback, a non-blocking send of st on
\* the progress channel ch: handed to a listener that is receiving, else
\* buffered while there is room, else dropped; blocks tells whether the
\* caller is held up
ProgressSend(ch, receiving, st) ==
  IF receiving THEN [chan |-> ch, received |-> <<st>>, dropped |-> 0, blocks |-> FALSE]
  ELSE IF Len(ch) < ProgressChanCap
    THEN [chan |-> Append(ch, st), received |-> <<>>, dropped |-> 0, blocks |-> FALSE]
  ELSE [chan |-> ch, received |-> <<>>, dropped |-> 1, blocks |-> FALSE]

\* ------------------------------------------------------------ ui package
\* keys the terminal may deliver (tea.KeyMsg); Runes are the printable ones
Runes == {"q", "k", "j", " "}

Keys == {"enter", "ctrl+c", "esc", "backspace", "up", "down"} \cup Runes

\* InputModel after NewInputModel: value is the text buffer
NewInputModel == [value |-> <<>>, submitted |-> FALSE, query |-> <<>>]

\* LoadingModel after NewLoadingModel
NewLoadingModel(query) == [query |-> query, err |-> NoErr, frame |-> 0]

\* SelectorModel after NewSelector; options is a slice (array identity)
NewSelector(options) ==
  [options |-> options, cursor |-> 0, selected |-> NilPtr, quitting |-> FALSE,
   safetyDone |-> FALSE, frame |-> 0]

\* models of the stages that are not on screen: the value of a model is
\* dropped when its Update returns the model of the next stage
NoInputModel == NewInputModel

NoLoadingModel == NewLoadingModel(<<>>)

NoSelectorModel == NewSelector(Nil)

\* LoadingModel.Init and SelectorModel.Init: the commands of the batch
LoadingInit == {"tickLoading", "loadOptions"}

SelectorInit == {"evaluateSafety", "tickSelector"}

\* textinput.Update for a key: runes are appended up to the char limit
TextInputUpdate(value, key) ==
  IF key \in Runes
    THEN (IF Len(value) < MaxQueryLen THEN Append(value, key) ELSE value)
  ELSE IF key = "backspace" /\ Len(value) > 0
    THEN SubSeq(value, 1, Len(value) - 1)
  ELSE value

\* InputModel.Update for a tea.KeyMsg as it would be without the check for
\* an empty query
InputUpdateKey_SubmitEmpty(m, key) ==
  IF key = "enter"
    THEN [stage |-> "loading", im |-> NoInputModel,
          lm |-> NewLoadingModel(m.value), cmds |-> LoadingInit]
  ELSE IF key \in {"ctrl+c", "esc"}
    THEN [stage |-> "input", im |-> m, lm |-> NoLoadingModel, cmds |-> {"quit"}]
  ELSE [stage |-> "input", im |-> [m EXCEPT !.value = TextInputUpdate(m.value, key)],
        lm |-> NoLoadingModel, cmds |-> {}]

\* InputModel.Update for a tea.KeyMsg (m.query and m.submitted are written
\* on the copy that is dropped when the LoadingModel is returned)
InputUpdateKey(m, key) ==
  IF key = "enter"
    THEN (IF m.value # <<>>
            THEN [stage |-> "loading", im |-> NoInputModel,
                  lm |-> NewLoadingModel(m.value), cmds |-> LoadingInit]
            ELSE [stage |-> "input", im |-> [m EXCEPT !.query = m.value],
                  lm |-> NoLoadingModel, cmds |-> {}])
  ELSE IF key \in {"ctrl+c", "esc"}
    THEN [stage |-> "input", im |-> m, lm |-> NoLoadingModel, cmds |-> {"quit"}]
  ELSE [stage |-> "input", im |-> [m EXCEPT !.value = TextInputUpdate(m.value, key)],
        lm |-> NoLoadingModel, cmds |-> {}]

\* LoadingModel.Update for a tea.KeyMsg
LoadingUpdateKey(m, key) ==
  IF key \in {"ctrl+c", "q"}
    THEN [lm |-> m, cmds |-> {"quit"}]
    ELSE [lm |-> m, cmds |-> {}]

\* LoadingModel.Update for the optionsMsg as it would be without the check
\* for an empty batch
LoadingUpdateOptions_NoEmptyCheck(m, h, options, err) ==
  IF err # NoErr
    THEN [stage |-> "loading", lm |-> [m EXCEPT !.err = err],
          sm |-> NoSelectorModel, cmds |-> {"quit"}]
  ELSE [stage |-> "selector", lm |-> NoLoadingModel, sm |-> NewSelector(options),
        cmds |-> SelectorInit]

\* LoadingModel.Update for the optionsMsg as it would be if the selector
\* were returned without its Init command
LoadingUpdateOptions_NoInit(m, h, options, err) ==
  IF err # NoErr
    THEN [stage |-> "loading", lm |-> [m EXCEPT !.err = err],
          sm |-> NoSelectorModel, cmds |-> {"quit"}]
  ELSE IF Len(Slice(h, options)) = 0
    THEN [stage |-> "loading", lm |-> [m EXCEPT !.err = "no options generated"],
          sm |-> NoSelectorModel, cmds |-> {"quit"}]
  ELSE [stage |-> "selector", lm |-> NoLoadingModel, sm |-> NewSelector(options),
        cmds |-> {}]

\* LoadingModel.Update for the optionsMsg as it would be if a failed or
\* empty result were ignored and the stage went on waiting
LoadingUpdateOptions_KeepWaiting(m, h, options, err) ==
  IF err # NoErr \/ Len(Slice(h, options)) = 0
    THEN [stage |-> "loading", lm |-> m, sm |-> NoSelectorModel, cmds |-> {}]
  ELSE [stage |-> "selector", lm |-> NoLoadingModel, sm |-> NewSelector(options),
        cmds |-> SelectorInit]

\* LoadingModel.Update for the optionsMsg (options is a slice, err an error)
LoadingUpdateOptions(m, h, options, err) ==
  IF err # NoErr
    THEN [stage |-> "loading", lm |-> [m EXCEPT !.err = err],
          sm |-> NoSelectorModel, cmds |-> {"quit"}]
  ELSE IF Len(Slice(h, options)) = 0
    THEN [stage |-> "loading", lm |-> [m EXCEPT !.err = "no options generated"],
          sm |-> NoSelectorModel, cmds |-> {"quit"}]
  ELSE [stage |-> "selector", lm |-> NoLoadingModel, sm |-> NewSelector(options),
        cmds |-> SelectorInit]

\* LoadingModel.Update for a message that is neither a key, nor the
\* optionsMsg, nor a spinner tick: the default branch hands it to the
\* spinner, which ignores it
LoadingUpdateOther(m) == [lm |-> m, cmds |-> {}]

\* LoadingModel.View: the message on screen (the spinner frame aside)
LoadingView(m) == IF m.err # NoErr THEN "" ELSE "Generating options..."

\* LoadingModel.Update, default branch: the message goes to the spinner,
\* which advances on its own tick and schedules the next one
LoadingUpdateTick(m, owner) ==
  IF owner = "loading"
    THEN [lm |-> [m EXCEPT !.frame = (m.frame + 1) % NumFrames], cmds |-> {"tickLoading"}]
    ELSE [lm |-> m, cmds |-> {}]

\* SelectorModel.Update for a tea.KeyMsg as it would be with a cursor that
\* wraps around at the end of the list
SelectorUpdateKey_Wrap(m, h, key) ==
  IF key \in {"ctrl+c", "q"}
    THEN [sm |-> [m EXCEPT !.quitting = TRUE], cmds |-> {"quit"}]
  ELSE IF key \in {"up", "k"}
    THEN [sm |-> (IF m.cursor > 0 THEN [m EXCEPT !.cursor = m.cursor - 1] ELSE m),
          cmds |-> {}]
  ELSE IF key \in {"down", "j"}
    THEN [sm |-> [m EXCEPT !.cursor = (m.cursor + 1) % Len(Slice(h, m.options))],
          cmds |-> {}]
  ELSE IF key = "enter"
    THEN [sm |-> [m EXCEPT !.selected = Ptr(m.options, m.cursor), !.quitting = TRUE],
          cmds |-> {"quit"}]
  ELSE [sm |-> m, cmds |-> {}]

\* SelectorModel.Update for a tea.KeyMsg
SelectorUpdateKey(m, h, key) ==
  IF key \in {"ctrl+c", "q"}
    THEN [sm |-> [m EXCEPT !.quitting = TRUE], cmds |-> {"quit"}]
  ELSE IF key \in {"up", "k"}
    THEN [sm |-> (IF m.cursor > 0 THEN [m EXCEPT !.cursor = m.cursor - 1] ELSE m),
          cmds |-> {}]
  ELSE IF key \in {"down", "j"}
    THEN [sm |-> (IF m.cursor < Len(Slice(h, m.options)) - 1
                    THEN [m EXCEPT !.cursor = m.cursor + 1] ELSE m),
          cmds |-> {}]
  ELSE IF key = "enter"
    THEN [sm |-> [m EXCEPT !.selected = Ptr(m.options, m.cursor), !.quitting = TRUE],
          cmds |-> {"quit"}]
  ELSE [sm |-> m, cmds |-> {}]

\* SelectorModel.Update for the riskResultMsg as it would be if the
\* completed flag were set on success only
SelectorUpdateRisk_DoneOnSuccess(m, options, err) ==
  [sm |-> [m EXCEPT !.safetyDone = (err = NoErr),
                    !.options = IF err = NoErr THEN options ELSE m.options],
   cmds |-> {}]

\* SelectorModel.Update for the riskResultMsg as it would be if a failed
\* safety pass were started again
SelectorUpdateRisk_Retry(m, options, err) ==
  IF err # NoErr
    THEN [sm |-> m, cmds |-> {"evaluateSafety"}]
    ELSE [sm |-> [m EXCEPT !.safetyDone = TRUE, !.options = options], cmds |-> {}]

\* SelectorModel.Update for the riskResultMsg
SelectorUpdateRisk(m, options, err) ==
  [sm |-> [m EXCEPT !.safetyDone = TRUE,
                    !.options = IF err = NoErr THEN options ELSE m.options],
   cmds |-> {}]

\* SelectorModel.Update for a spinner.TickMsg as it would be if the spinner
\* were updated whatever the completed flag says
SelectorUpdateTick_Always(m, owner) ==
  IF owner = "selector"
    THEN [sm |-> [m EXCEPT !.frame = (m.frame + 1) % NumFrames], cmds |-> {"tickSelector"}]
    ELSE [sm |-> m, cmds |-> {}]

\* SelectorModel.Update for a spinner.TickMsg
SelectorUpdateTick(m, owner) ==
  IF ~m.safetyDone /\ owner = "selector"
    THEN [sm |-> [m EXCEPT !.frame = (m.frame + 1) % NumFrames], cmds |-> {"tickSelector"}]
    ELSE [sm |-> m, cmds |-> {}]

\* what a risk line of the view holds: kind "" is the empty string (no line
\* is written), "low" and "high" are the two warnings with their icon,
\* "checking" is the spinner followed by " checking safety..."
RiskLine(kind, message, bold) == [kind |-> kind, message |-> message, bold |-> bold]

NoRiskLine == RiskLine("", "", FALSE)

\* formatRiskWarning
formatRiskWarning(risk, selected) ==
  IF risk.Level = RiskLow THEN RiskLine("low", risk.Message, selected)
  ELSE IF risk.Level = RiskHigh THEN RiskLine("high", risk.Message, selected)
  ELSE NoRiskLine

\* SelectorModel.View as it would be if the placeholder were shown for
\* every candidate without risk, completed pass or not
SelectorView_AlwaysChecking(m, h) ==
  IF m.quitting /\ m.selected = NilPtr
    THEN [blank |-> TRUE, entries |-> <<>>, help |-> FALSE]
  ELSE [blank |-> FALSE,
        entries |->
          [i \in 1..Len(Slice(h, m.options)) |->
             LET option == Slice(h, m.options)[i]
             IN [cursor |-> (m.cursor = i - 1),
                 title |-> option.Title,
                 command |-> option.Command,
                 riskWarning |->
                   IF option.Risk.present
                     THEN formatRiskWarning(option.Risk, m.cursor = i - 1)
                   ELSE RiskLine("checking", "", FALSE),
                 description |-> option.Description]],
        help |-> (m.selected = NilPtr)]

\* SelectorModel.View: blank tells that the empty string is returned;
\* otherwise one entry per option of m.options, in order, and the help line
\* while nothing is selected
SelectorView(m, h) ==
  IF m.quitting /\ m.selected = NilPtr
    THEN [blank |-> TRUE, entries |-> <<>>, help |-> FALSE]
  ELSE [blank |-> FALSE,
        entries |->
          [i \in 1..Len(Slice(h, m.options)) |->
             LET option == Slice(h, m.options)[i]
             IN [cursor |-> (m.cursor = i - 1),
                 title |-> option.Title,
                 command |-> option.Command,
                 riskWarning |->
                   IF option.Risk.present
                     THEN formatRiskWarning(option.Risk, m.cursor = i - 1)
                   ELSE IF ~m.safetyDone THEN RiskLine("checking", "", FALSE)
                   ELSE NoRiskLine,
                 description |-> option.Description]],
        help |-> (m.selected = NilPtr)]

\* -------------------------------------------------------- output package
\* what is written to the primary output channel, one record per print
Printed(text, command) == [text |-> text, command |-> command]

\* outputShellFunction as it would be if it printed the confirmation of the
\* stdout mode
outputShellFunction_Confirm(cmd) ==
  [out |-> <<Printed("\nSelected command:\n%s\n", cmd.Command)>>, tried |-> <<>>,
   err |-> NoErr]

\* Handler.outputShellFunction: the command and a newline (out is what is
\* printed, tried the clipboard backends attempted, err the error returned)
outputShellFunction(cmd) ==
  [out |-> <<Printed("%s\n", cmd.Command)>>, tried |-> <<>>, err |-> NoErr]

\* Handler.outputStdout
outputStdout(cmd) ==
  [out |-> <<Printed("\nSelected command:\n%s\n", cmd.Command)>>, tried |-> <<>>,
   err |-> NoErr]

\* outputClipboard as it would be if a backend were tried even after an
\* earlier one succeeded
outputClipboard_TryAll(cmd, ok) ==
  IF \E b \in DOMAIN ok : ok[b]
    THEN [out |-> <<Printed("\nCopied to clipboard: %s\n", cmd.Command)>>,
          tried |-> <<"pbcopy", "xclip", "wl-copy">>, err |-> NoErr]
  ELSE [out |-> <<Printed("\nClipboard not available\n", "")>> \o outputStdout(cmd).out,
        tried |-> <<"pbcopy", "xclip", "wl-copy">>, err |-> NoErr]

\* outputClipboard as it would be if it reported the failure of the last
\* backend to its caller
outputClipboard_FailureIsError(cmd, ok) ==
  IF ok["pbcopy"]
    THEN [out |-> <<Printed("\nCopied to clipboard: %s\n", cmd.Command)>>,
          tried |-> <<"pbcopy">>, err |-> NoErr]
  ELSE IF ok["xclip"]
    THEN [out |-> <<Printed("\nCopied to clipboard: %s\n", cmd.Command)>>,
          tried |-> <<"pbcopy", "xclip">>, err |-> NoErr]
  ELSE IF ok["wl-copy"]
    THEN [out |-> <<Printed("\nCopied to clipboard: %s\n", cmd.Command)>>,
          tried |-> <<"pbcopy", "xclip", "wl-copy">>, err |-> NoErr]
  ELSE [out |-> <<Printed("\nClipboard not available\n", "")>>,
        tried |-> <<"pbcopy", "xclip", "wl-copy">>, err |-> "clipboard not available"]

\* Handler.outputClipboard; ok[b] tells whether backend b succeeds
outputClipboard(cmd, ok) ==
  IF ok["pbcopy"]
    THEN [out |-> <<Printed("\nCopied to clipboard: %s\n", cmd.Command)>>,
          tried |-> <<"pbcopy">>, err |-> NoErr]
  ELSE IF ok["xclip"]
    THEN [out |-> <<Printed("\nCopied to clipboard: %s\n", cmd.Command)>>,
          tried |-> <<"pbcopy", "xclip">>, err |-> NoErr]
  ELSE IF ok["wl-copy"]
    THEN [out |-> <<Printed("\nCopied to clipboard: %s\n", cmd.Command)>>,
          tried |-> <<"pbcopy", "xclip", "wl-copy">>, err |-> NoErr]
  ELSE [out |-> <<Printed("\nClipboard not available\n", "")>> \o outputStdout(cmd).out,
        tried |-> <<"pbcopy", "xclip", "wl-copy">>, err |-> outputStdout(cmd).err]

\* Output as it would be if an unrecognized mode were treated as stdout
Output_DefaultStdout(mode, cmd, ok) ==
  IF mode = ModeShellFunction THEN outputShellFunction(cmd)
  ELSE IF mode = ModeClipboard THEN outputClipboard(cmd, ok)
  ELSE outputStdout(cmd)

\* Handler.Output
Output(mode, cmd, ok) ==
  IF mode = ModeShellFunction THEN outputShellFunction(cmd)
  ELSE IF mode = ModeStdout THEN outputStdout(cmd)
  ELSE outputClipboard(cmd, ok)

\* the -output values a run may be started with
Modes == {ModeClipboard, ModeShellFunction, ModeStdout, "other"}

Backends == {"pbcopy", "xclip", "wl-copy"}

\* ----------------------------------------------------------- main package
\* run() after p.Run() as it would be if the message for a run without
\* selection were printed in every mode
RunTail_AlwaysMessage(finalStage, finalLm, finalSm, h, mode, ok) ==
  IF finalStage = "loading" /\ finalLm.err # NoErr
    THEN [exit |-> 1, out |-> <<>>, dispatched |-> <<>>, tried |-> <<>>]
  ELSE IF finalStage # "selector"
    THEN [exit |-> 0, out |-> <<>>, dispatched |-> <<>>, tried |-> <<>>]
  ELSE IF finalSm.selected = NilPtr
    THEN [exit |-> 0, out |-> <<Printed("No option selected\n", "")>>,
          dispatched |-> <<>>, tried |-> <<>>]
  ELSE LET o == Output(mode, Deref(h, finalSm.selected), ok)
       IN [exit |-> IF o.err # NoErr THEN 1 ELSE 0, out |-> o.out,
           dispatched |-> <<Deref(h, finalSm.selected)>>, tried |-> o.tried]

\* run() after p.Run() as it would be if a Selection Stage left without
\* selection dispatched the candidate at the cursor
RunTail_DispatchAtCursor(finalStage, finalLm, finalSm, h, mode, ok) ==
  IF finalStage = "loading" /\ finalLm.err # NoErr
    THEN [exit |-> 1, out |-> <<>>, dispatched |-> <<>>, tried |-> <<>>]
  ELSE IF finalStage # "selector"
    THEN [exit |-> 0, out |-> <<>>, dispatched |-> <<>>, tried |-> <<>>]
  ELSE LET p == IF finalSm.selected = NilPtr
                  THEN Ptr(finalSm.options, finalSm.cursor) ELSE finalSm.selected
           o == Output(mode, Deref(h, p), ok)
       IN [exit |-> IF o.err # NoErr THEN 1 ELSE 0, out |-> o.out,
           dispatched |-> <<Deref(h, p)>>, tried |-> o.tried]

\* run() after p.Run() returned the final model: exit code, what was
\* printed, the option handed to the output handler, the backends tried
RunTail(finalStage, finalLm, finalSm, h, mode, ok) ==
  IF finalStage = "loading" /\ finalLm.err # NoErr
    THEN [exit |-> 1, out |-> <<>>, dispatched |-> <<>>, tried |-> <<>>]
  ELSE IF finalStage # "selector"
    THEN [exit |-> 0, out |-> <<>>, dispatched |-> <<>>, tried |-> <<>>]
  ELSE IF finalSm.selected = NilPtr
    THEN [exit |-> 0,
          out |-> IF mode # ModeShellFunction
                    THEN <<Printed("No option selected\n", "")>> ELSE <<>>,
          dispatched |-> <<>>, tried |-> <<>>]
  ELSE LET o == Output(mode, Deref(h, finalSm.selected), ok)
       IN [exit |-> IF o.err # NoErr THEN 1 ELSE 0, out |-> o.out,
           dispatched |-> <<Deref(h, finalSm.selected)>>, tried |-> o.tried]

\* the query given as trailing command-line arguments (strings.Join(args, " "))
RECURSIVE Join(_)
Join(args) ==
  IF Len(args) = 0 THEN <<>>
  ELSE IF Len(args) = 1 THEN args[1]
  ELSE args[1] \o <<" ">> \o Join(Tail(args))

\* the argument lists a run may be started with
ArgLists == { <<>>, << <<"q">> >>, << <<" ">> >>, << <<"q">>, <<"j">> >> }

\* what config.Load may find on disk: no file, a file that does not decode,
\* a file without a key, a file with a key
ConfigOutcomes == {"nofile", "loaderr", "nokey", "ok"}

\* config.DefaultConfig
DefaultConfig ==
  [AnthropicAPIKey |-> "", Model |-> "claude-sonnet-4-5-20250929",
   Provider |-> "anthropic"]

\* config.Load, given what it finds on disk (with an error the returned
\* pointer is nil and run() does not read it)
Load(found) ==
  IF found = "nofile" THEN [cfg |-> DefaultConfig, err |-> NoErr]
  ELSE IF found = "loaderr" THEN [cfg |-> DefaultConfig, err |-> "decode"]
  ELSE IF found = "nokey"
    THEN [cfg |-> [AnthropicAPIKey |-> "", Model |-> "", Provider |-> ""],
          err |-> NoErr]
  ELSE [cfg |-> [AnthropicAPIKey |-> "key", Model |-> "", Provider |-> ""],
        err |-> NoErr]

\* the start of run() as it would be without the key validation
ConfigError_NoKeyCheck(found) ==
  IF Load(found).err # NoErr THEN "failed to load config" ELSE NoErr

\* the start of run(): the error it returns before building anything
ConfigError(found) ==
  IF Load(found).err # NoErr THEN "failed to load config"
  ELSE IF Load(found).cfg.AnthropicAPIKey = "" THEN "anthropic_api_key not set"
  ELSE NoErr

\* ------------------------------------------------------------------ state
VARIABLES
  pc,          \* position of run(): "start", "ui" (inside p.Run), "done"
  cfg,         \* outcome of config.Load for this run
  outputMode,  \* the -output flag
  stage,       \* type of the current tea.Model: "none", "input", "loading", "selector"
  im,          \* the InputModel
  lm,          \* the LoadingModel
  sm,          \* the SelectorModel
  heap,        \* backing arrays of the option slices
  genCall,     \* the loadOptions command in flight
  optionsMsg,  \* the optionsMsg in flight
  safetyCall,  \* the evaluateSafety command in flight
  riskMsg,     \* the riskResultMsg in flight
  quitMsg,     \* a tea.QuitMsg is in flight
  ticks,       \* spinners whose TickMsg is in flight
  stdout,      \* what the process wrote to its primary output channel
  exitCode,    \* exit code of the process once pc = "done"
  dispatched,  \* the options handed to Handler.Output
  clipTried,   \* clipboard backends attempted, in order
  evalCalls,   \* number of invocations of Evaluator.Evaluate so far
  gen,         \* a direct caller of the Generator and the Evaluator (as the tests are)
  started,     \* how often each background command was started in this run
  note         \* the stage-change notification: "none", "flight" (on its way to
               \* the event loop) or "handled"

\* the state of the running program
progVars == <<pc, cfg, outputMode, stage, im, lm, sm, heap, genCall, optionsMsg,
              safetyCall, riskMsg, quitMsg, ticks, stdout, exitCode, dispatched,
              clipTried, evalCalls, started, note>>

vars == <<progVars, gen>>

\* no background command started yet
NoneStarted == [loadOptions |-> 0, evaluateSafety |-> 0]

\* a safety outcome standing for "no safety call configured"
NoApi == [kind |-> "callfail", Evaluations |-> <<>>]

\* the direct caller before a call: ch is the progress channel its callback
\* sends on, receiving tells whether its listener is waiting on the channel
GenIdle(ch, receiving) ==
  [op |-> "none", pc |-> "idle",
   client |-> MockClient([Response |-> <<>>, Err |-> NoErr]), query |-> <<>>,
   hasProgress |-> FALSE, clientIsNil |-> FALSE, api |-> NoApi,
   heap |-> EmptyHeap, input |-> <<>>, options |-> Nil, err |-> NoErr,
   risks |-> <<>>, first |-> <<>>, again |-> "no",
   notified |-> <<>>, evals |-> 0, apiCalls |-> 0,
   chan |-> ch, receiving |-> receiving, received |-> <<>>, dropped |-> 0,
   level |-> "", parsed |-> RiskNone]

NoCall == [active |-> FALSE, query |-> <<>>, options |-> Nil]

NoMsg == [present |-> FALSE, options |-> Nil, err |-> NoErr]

Init ==
  /\ pc = "start"
  /\ cfg \in ConfigOutcomes
  /\ outputMode \in Modes
  /\ stage = "none"
  /\ im = NewInputModel
  /\ lm = NoLoadingModel
  /\ sm = NoSelectorModel
  /\ heap = EmptyHeap
  /\ genCall = NoCall
  /\ optionsMsg = NoMsg
  /\ safetyCall = NoCall
  /\ riskMsg = NoMsg
  /\ quitMsg = FALSE
  /\ ticks = {}
  /\ stdout = <<>>
  /\ exitCode = 0
  /\ dispatched = <<>>
  /\ clipTried = <<>>
  /\ evalCalls = 0
  /\ started = NoneStarted
  /\ note = "none"
  /\ gen = GenIdle(<<>>, FALSE)

\* the commands an Update returned are started: each runs concurrently and
\* its message comes back later (consumed are the ticks just handled)
Launch(cmds, consumed) ==
  /\ quitMsg' = (quitMsg \/ "quit" \in cmds)
  /\ genCall' = IF "loadOptions" \in cmds
                  THEN [active |-> TRUE, query |-> lm'.query, options |-> Nil]
                  ELSE genCall
  /\ safetyCall' = IF "evaluateSafety" \in cmds
                     THEN [active |-> TRUE, query |-> <<>>, options |-> sm'.options]
                     ELSE safetyCall
  /\ ticks' = (ticks \ consumed)
                \cup {o \in {"loading"} : "tickLoading" \in cmds}
                \cup {o \in {"selector"} : "tickSelector" \in cmds}
  /\ started' = [c \in DOMAIN started |-> started[c] + IF c \in cmds THEN 1 ELSE 0]

\* run() up to p.Run(): configuration, key check, initial model
Startup ==
  /\ pc = "start"
  /\ \E args \in ArgLists, ttyOK \in BOOLEAN :
       IF ConfigError(cfg) # NoErr \/ (outputMode = ModeShellFunction /\ ~ttyOK)
         THEN /\ pc' = "done"
              /\ exitCode' = 1
              /\ UNCHANGED <<stage, im, lm, sm, genCall, safetyCall, quitMsg, ticks,
                             started>>
         ELSE /\ pc' = "ui"
              /\ exitCode' = exitCode
              /\ im' = im
              /\ sm' = sm
              /\ IF Len(args) >= 1
                   THEN /\ stage' = "loading"
                        /\ lm' = NewLoadingModel(Join(args))
                        /\ Launch(LoadingInit, {})
                   ELSE /\ stage' = "input"
                        /\ lm' = lm
                        /\ Launch({}, {})
  /\ UNCHANGED <<cfg, outputMode, heap, optionsMsg, riskMsg, stdout, dispatched,
                 clipTried, evalCalls, note, gen>>

\* the event loop hands a key press to the current model's Update
Key(key) ==
  /\ pc = "ui"
  /\ \/ /\ stage = "input"
        /\ LET r == InputUpdateKey(im, key)
           IN /\ stage' = r.stage
              /\ im' = r.im
              /\ lm' = IF r.stage = "loading" THEN r.lm ELSE lm
              /\ sm' = sm
              /\ Launch(r.cmds, {})
     \/ /\ stage = "loading"
        /\ LET r == LoadingUpdateKey(lm, key)
           IN /\ lm' = r.lm
              /\ UNCHANGED <<stage, im, sm>>
              /\ Launch(r.cmds, {})
     \/ /\ stage = "selector"
        /\ LET r == SelectorUpdateKey(sm, heap, key)
           IN /\ sm' = r.sm
              /\ UNCHANGED <<stage, im, lm>>
              /\ Launch(r.cmds, {})
  /\ UNCHANGED <<pc, cfg, outputMode, heap, optionsMsg, riskMsg, stdout, exitCode,
                 dispatched, clipTried, evalCalls, note, gen>>

\* LoadingModel.loadOptions: the generation call returns and its result
\* becomes the optionsMsg
LoadOptionsReturnsWith(resp) ==
  /\ pc = "ui"
  /\ genCall.active
  /\ LET g == Generate(resp)
     IN /\ heap' = IF g.isNil THEN heap ELSE [heap EXCEPT ![GenArr] = g.options]
        /\ optionsMsg' = [present |-> TRUE,
                          options |-> IF g.isNil THEN Nil ELSE GenArr,
                          err |-> g.err]
        /\ evalCalls' = evalCalls + g.evals
  /\ genCall' = NoCall
  /\ UNCHANGED <<pc, cfg, outputMode, stage, im, lm, sm, safetyCall, riskMsg, quitMsg,
                 ticks, stdout, exitCode, dispatched, clipTried, started, note, gen>>

LoadOptionsReturns == \E resp \in ClientResponses : LoadOptionsReturnsWith(resp)

\* the event loop hands the optionsMsg to LoadingModel.Update
DeliverOptions ==
  /\ pc = "ui"
  /\ optionsMsg.present
  /\ stage = "loading"
  /\ LET r == LoadingUpdateOptions(lm, heap, optionsMsg.options, optionsMsg.err)
     IN /\ stage' = r.stage
        /\ lm' = r.lm
        /\ sm' = IF r.stage = "selector" THEN r.sm ELSE sm
        /\ Launch(r.cmds, {})
  /\ optionsMsg' = NoMsg
  /\ UNCHANGED <<pc, cfg, outputMode, im, heap, riskMsg, stdout, exitCode, dispatched,
                 clipTried, evalCalls, note, gen>>

\* SelectorModel.evaluateSafety: the safety pass returns and its result
\* becomes the riskResultMsg (main builds the evaluator with a client)
EvaluateSafetyReturnsWith(api) ==
  /\ pc = "ui"
  /\ safetyCall.active
  /\ LET r == EvaluateSafety(heap, safetyCall.options, FALSE, api)
     IN /\ heap' = r.heap
        /\ riskMsg' = [present |-> TRUE, options |-> r.options, err |-> r.err]
        /\ evalCalls' = evalCalls + r.evals
  /\ safetyCall' = NoCall
  /\ UNCHANGED <<pc, cfg, outputMode, stage, im, lm, sm, genCall, optionsMsg, quitMsg,
                 ticks, stdout, exitCode, dispatched, clipTried, started, note, gen>>

EvaluateSafetyReturns == \E api \in SafetyOutcomes : EvaluateSafetyReturnsWith(api)

\* the event loop hands the riskResultMsg to SelectorModel.Update
DeliverRisk ==
  /\ pc = "ui"
  /\ riskMsg.present
  /\ stage = "selector"
  /\ LET r == SelectorUpdateRisk(sm, riskMsg.options, riskMsg.err)
     IN /\ sm' = r.sm
        /\ Launch(r.cmds, {})
  /\ riskMsg' = NoMsg
  /\ UNCHANGED <<pc, cfg, outputMode, stage, im, lm, heap, optionsMsg, stdout, exitCode,
                 dispatched, clipTried, evalCalls, note, gen>>

\* the event loop hands a spinner.TickMsg to the current model's Update
DeliverTick(owner) ==
  /\ pc = "ui"
  /\ owner \in ticks
  /\ \/ /\ stage = "loading"
        /\ LET r == LoadingUpdateTick(lm, owner)
           IN /\ lm' = r.lm
              /\ sm' = sm
              /\ Launch(r.cmds, {owner})
     \/ /\ stage = "selector"
        /\ LET r == SelectorUpdateTick(sm, owner)
           IN /\ sm' = r.sm
              /\ lm' = lm
              /\ Launch(r.cmds, {owner})
  /\ UNCHANGED <<pc, cfg, outputMode, stage, im, heap, optionsMsg, riskMsg, stdout,
                 exitCode, dispatched, clipTried, evalCalls, note, gen>>

\* the event loop receives the QuitMsg: p.Run() returns the current model
\* and run() finishes with it; ok[b] tells whether clipboard backend b would
\* succeed
DeliverQuitWith(ok) ==
  /\ pc = "ui"
  /\ quitMsg
  /\ LET r == RunTail(stage, lm, sm, heap, outputMode, ok)
     IN /\ exitCode' = r.exit
        /\ stdout' = stdout \o r.out
        /\ dispatched' = dispatched \o r.dispatched
        /\ clipTried' = clipTried \o r.tried
  /\ pc' = "done"
  /\ quitMsg' = FALSE
  /\ UNCHANGED <<cfg, outputMode, stage, im, lm, sm, heap, genCall, optionsMsg,
                 safetyCall, riskMsg, ticks, evalCalls,
                 started, note, gen>>

DeliverQuit == \E ok \in [Backends -> BOOLEAN] : DeliverQuitWith(ok)

Next ==
  \/ Startup
  \/ \E key \in Keys : Key(key)
  \/ LoadOptionsReturns
  \/ DeliverOptions
  \/ EvaluateSafetyReturns
  \/ DeliverRisk
  \/ \E owner \in {"loading", "selector"} : DeliverTick(owner)
  \/ DeliverQuit

Spec == Init /\ [][Next]_vars

\* a run that gets as far as the event loop, in one output mode: the event
\* loop reads neither the configuration nor the mode, which run() uses
\* before p.Run() and after it returned
FairInit == Init /\ cfg = "ok" /\ outputMode = ModeStdout

\* the run under the scheduling of the event loop: a message that was sent
\* to the event loop is eventually handed to the current model's Update.
\* Nothing is assumed about the user's keys nor about the two external
\* calls ever returning.
FairSpec ==
  /\ FairInit /\ [][Next]_vars
  /\ WF_vars(DeliverOptions)
  /\ WF_vars(DeliverRisk)
  /\ WF_vars(DeliverTick("loading"))
  /\ WF_vars(DeliverTick("selector"))
  /\ WF_vars(DeliverQuit)

\* the pipeline reports that it moves on to the safety evaluation: a
\* stage-change notification for the Progress Stage enters the event loop
NotifyEvaluating ==
  /\ pc = "ui"
  /\ stage = "loading"
  /\ genCall.active
  /\ note = "none"
  /\ note' = "flight"
  /\ UNCHANGED <<pc, cfg, outputMode, stage, im, lm, sm, heap, genCall, optionsMsg,
                 safetyCall, riskMsg, quitMsg, ticks, stdout, exitCode, dispatched,
                 clipTried, evalCalls, started, gen>>

\* the event loop hands the notification to the current model's Update; no
\* Update has a case for it (InputModel passes it to the text input,
\* SelectorModel returns m, nil)
DeliverNote ==
  /\ pc = "ui"
  /\ note = "flight"
  /\ note' = "handled"
  /\ IF stage = "loading"
       THEN LET r == LoadingUpdateOther(lm)
            IN lm' = r.lm /\ Launch(r.cmds, {})
       ELSE lm' = lm /\ Launch({}, {})
  /\ UNCHANGED <<pc, cfg, outputMode, stage, im, sm, heap, optionsMsg, riskMsg, stdout,
                 exitCode, dispatched, clipTried, evalCalls, gen>>

\* the run with stage-change notifications
ProgressNext == Next \/ NotifyEvaluating \/ DeliverNote

ProgressSpec == Init /\ [][ProgressNext]_vars

\* ------------------------------------------------------ direct callers
\* queries a caller may pass to the Generator
TestQueries == { <<>>, <<"q">>, <<"q", " ", "j">> }

\* command batches a caller may pass to the Evaluator
CommandBatches == UNION { [1..n -> {"ls", "rm"}] : n \in 0..MaxOptions }

\* candidate batches a caller may pass to EvaluateSafety: any Option value,
\* with or without a risk already attached
InputOptions ==
  { Option(c.Title, c.Command, c.Description, r) :
      c \in CommandOption, r \in {NilRisk, RiskInfo(RiskLow, "old")} }

InputBatches == UNION { [1..n -> InputOptions] : n \in 0..MaxOptions }

\* risk level strings a safety response may carry: the three the prompt
\* asks for, an unrecognized one and the empty string
RiskLevelStrings == {"none", "low", "high", "invalid", ""}

\* the callback invoked with each of stages in turn
RECURSIVE SendAll(_, _, _)
SendAll(g, stages, blocked) ==
  IF Len(stages) = 0 \/ blocked THEN [gen |-> g, blocks |-> blocked]
  ELSE LET r == ProgressSend(g.chan, g.receiving, Head(stages))
       IN SendAll([g EXCEPT !.chan = r.chan,
                            !.receiving = g.receiving /\ r.received = <<>>,
                            !.received = g.received \o r.received,
                            !.dropped = g.dropped + r.dropped,
                            !.notified = IF r.blocks THEN g.notified
                                         ELSE Append(g.notified, Head(stages))],
                  Tail(stages), r.blocks)

\* the program is not running while the packages are called directly
GenInit ==
  /\ pc = "lib"
  /\ cfg = "ok"
  /\ outputMode = ModeStdout
  /\ stage = "none"
  /\ im = NewInputModel
  /\ lm = NoLoadingModel
  /\ sm = NoSelectorModel
  /\ heap = EmptyHeap
  /\ genCall = NoCall
  /\ optionsMsg = NoMsg
  /\ safetyCall = NoCall
  /\ riskMsg = NoMsg
  /\ quitMsg = FALSE
  /\ ticks = {}
  /\ stdout = <<>>
  /\ exitCode = 0
  /\ dispatched = <<>>
  /\ clipTried = <<>>
  /\ evalCalls = 0
  /\ started = NoneStarted
  /\ note = "none"
  /\ gen = GenIdle(<<>>, FALSE)

\* gen.Generate(ctx, query) on a Generator built over a MockClient
CallGenerate(query, resp) ==
  /\ gen.pc = "idle"
  /\ LET r == GenerateWith(MockClient(resp), query)
     IN gen' = [gen EXCEPT !.op = "Generate", !.pc = "returned",
                           !.client = r.client, !.query = query,
                           !.heap = IF r.isNil THEN gen.heap
                                    ELSE [gen.heap EXCEPT ![GenArr] = r.options],
                           !.options = IF r.isNil THEN Nil ELSE GenArr,
                           !.err = r.err, !.evals = r.evals]
  /\ UNCHANGED progVars

\* evaluator.Evaluate(ctx, commands)
CallEvaluate(commands, clientIsNil, api) ==
  /\ gen.pc = "idle"
  /\ LET r == Evaluate(commands, clientIsNil, api)
     IN gen' = [gen EXCEPT !.op = "Evaluate", !.pc = "returned",
                           !.input = commands, !.clientIsNil = clientIsNil,
                           !.api = api, !.risks = r.risks, !.err = r.err,
                           !.evals = 1, !.apiCalls = r.calls]
  /\ UNCHANGED progVars

\* gen.EvaluateSafety(ctx, options) on the batch input
CallEvaluateSafety(input, clientIsNil, api) ==
  /\ gen.pc = "idle"
  /\ LET r == EvaluateSafety([gen.heap EXCEPT ![GenArr] = input], GenArr,
                             clientIsNil, api)
     IN gen' = [gen EXCEPT !.op = "EvaluateSafety", !.pc = "returned",
                           !.input = input, !.clientIsNil = clientIsNil,
                           !.api = api, !.heap = r.heap, !.options = r.options,
                           !.err = r.err, !.evals = r.evals,
                           !.apiCalls = r.apiCalls]
  /\ UNCHANGED progVars

\* a second gen.EvaluateSafety with the same evaluator answer, on the same
\* input batch (on = "input") or on the batch the first call returned
\* (on = "output"); first keeps the value of the first call's batch
CallEvaluateSafetyAgain(on) ==
  /\ gen.pc = "returned"
  /\ gen.op = "EvaluateSafety"
  /\ gen.err = NoErr
  /\ gen.again = "no"
  /\ LET r == EvaluateSafety(gen.heap, IF on = "input" THEN GenArr ELSE gen.options,
                             gen.clientIsNil, gen.api)
     IN gen' = [gen EXCEPT !.again = on, !.first = Slice(gen.heap, gen.options),
                           !.heap = r.heap, !.options = r.options, !.err = r.err,
                           !.evals = gen.evals + r.evals,
                           !.apiCalls = gen.apiCalls + r.apiCalls]
  /\ UNCHANGED progVars

\* gen.GenerateWithProgress(ctx, query, progress) up to the converted batch;
\* api is what the safety call will answer if it is made
GWPStart(query, resp, hasProgress, clientIsNil, api) ==
  /\ gen.pc = "idle"
  /\ LET r == GWPGenerate(MockClient(resp), query)
     IN gen' = [gen EXCEPT !.op = "GenerateWithProgress",
                           !.pc = IF r.err # NoErr THEN "returned" ELSE "notify",
                           !.client = r.client, !.query = query,
                           !.hasProgress = hasProgress,
                           !.clientIsNil = clientIsNil, !.api = api,
                           !.heap = IF r.isNil THEN gen.heap
                                    ELSE [gen.heap EXCEPT ![GenArr] = r.options],
                           !.options = IF r.isNil THEN Nil ELSE GenArr,
                           !.err = r.err]
  /\ UNCHANGED progVars

\* GenerateWithProgress calls the callback and goes on when it has returned
GWPNotify ==
  /\ gen.pc = "notify"
  /\ LET r == SendAll(gen, GWPProgress(gen.hasProgress), FALSE)
     IN /\ ~r.blocks
        /\ gen' = [r.gen EXCEPT !.pc = "evaluate"]
  /\ UNCHANGED progVars

\* GenerateWithProgress makes the safety pass and returns
GWPReturn ==
  /\ gen.pc = "evaluate"
  /\ LET r == GWPEvaluate(Slice(gen.heap, gen.options), gen.clientIsNil, gen.api)
     IN gen' = [gen EXCEPT !.pc = "returned",
                           !.heap = IF r.isNil THEN gen.heap
                                    ELSE [gen.heap EXCEPT ![GenArr] = r.options],
                           !.options = IF r.isNil THEN Nil ELSE GenArr,
                           !.err = r.err, !.evals = gen.evals + r.evals,
                           !.apiCalls = gen.apiCalls + r.apiCalls]
  /\ UNCHANGED progVars

\* the listener of the progress channel starts waiting for a notification
ListenerWait ==
  /\ ~gen.receiving
  /\ gen.chan = <<>>
  /\ gen' = [gen EXCEPT !.receiving = TRUE]
  /\ UNCHANGED progVars

\* the listener takes a buffered notification
ListenerReceive ==
  /\ ~gen.receiving
  /\ gen.chan # <<>>
  /\ gen' = [gen EXCEPT !.chan = Tail(gen.chan),
                        !.received = Append(gen.received, Head(gen.chan))]
  /\ UNCHANGED progVars

\* the listener stops listening (its stage has moved on)
ListenerLeave ==
  /\ gen.receiving
  /\ gen' = [gen EXCEPT !.receiving = FALSE]
  /\ UNCHANGED progVars

\* the caller is done with the result; the channel outlives the call
GenReset ==
  /\ gen.pc = "returned"
  /\ gen' = GenIdle(gen.chan, gen.receiving)
  /\ UNCHANGED progVars

\* parseRiskLevel(level)
CallParseRiskLevel(level) ==
  /\ gen.pc = "idle"
  /\ gen' = [gen EXCEPT !.op = "parseRiskLevel", !.pc = "returned",
                        !.level = level, !.parsed = parseRiskLevel(level)]
  /\ UNCHANGED progVars

\* an idle caller calls Evaluate with commands whose safety response rates
\* them with any level strings
CallsEvaluateLevels ==
  /\ gen.pc = "idle"
  /\ \E commands \in CommandBatches \ {<<>>} :
       \E levels \in [1..Len(commands) -> RiskLevelStrings \ {"none"}] :
         CallEvaluate(commands, FALSE,
                      [kind |-> "ok",
                       Evaluations |-> [i \in 1..Len(commands) |->
                                          [RiskLevel |-> levels[i], Reason |-> "why"]]])

\* an idle caller calls Generate with some query on some client
CallsGenerate ==
  /\ gen.pc = "idle"
  /\ \E query \in TestQueries, resp \in ClientResponses : CallGenerate(query, resp)

\* an idle caller calls Evaluate with some commands
CallsEvaluate ==
  /\ gen.pc = "idle"
  /\ \E commands \in CommandBatches, clientIsNil \in BOOLEAN, api \in SafetyOutcomes :
       CallEvaluate(commands, clientIsNil, api)

\* an idle caller calls EvaluateSafety with some batch
CallsEvaluateSafety ==
  /\ gen.pc = "idle"
  /\ \E input \in InputBatches, clientIsNil \in BOOLEAN, api \in SafetyOutcomes :
       CallEvaluateSafety(input, clientIsNil, api)

\* an idle caller calls GenerateWithProgress, with or without a callback
CallsGenerateWithProgress ==
  /\ gen.pc = "idle"
  /\ \E query \in TestQueries, resp \in ClientResponses, hasProgress \in BOOLEAN,
        clientIsNil \in BOOLEAN, api \in SafetyOutcomes :
       GWPStart(query, resp, hasProgress, clientIsNil, api)

GenNext ==
  \/ CallsGenerate
  \/ CallsEvaluate
  \/ CallsEvaluateLevels
  \/ \E level \in RiskLevelStrings : CallParseRiskLevel(level)
  \/ CallsEvaluateSafety
  \/ \E on \in {"input", "output"} : CallEvaluateSafetyAgain(on)
  \/ CallsGenerateWithProgress
  \/ GWPNotify
  \/ GWPReturn
  \/ ListenerWait
  \/ ListenerReceive
  \/ ListenerLeave
  \/ GenReset

GenSpec == GenInit /\ [][GenNext]_vars

\* ----------------------------------------------------------------- claims
\* the optionsMsg being handled carries an error or no candidate at all
OptionsMsgFails ==
  optionsMsg.err # NoErr \/ Len(Slice(heap, optionsMsg.options)) = 0

\* C1: when the Progress Stage handles a generation result that carries an
\* error, or success with zero candidates, it records a non-nil error and
\* quits; from then on the stage stays the Progress Stage with that error
\* (no Selection Stage is constructed), nothing is dispatched and the
\* process exits non-zero.
C1_GenerationFailureIsFatal ==
  /\ [][DeliverOptions /\ OptionsMsgFails
          => stage' = "loading" /\ lm'.err # NoErr /\ quitMsg']_vars
  /\ [][lm.err # NoErr
          => stage' = "loading" /\ lm'.err = lm.err /\ sm' = NoSelectorModel
             /\ dispatched' = <<>>
             /\ (pc' = "done" => exitCode' = 1)]_vars

\* C1 witness: a run that ended after the generation call answered with an
\* empty batch
C1_Witness ==
  pc = "done" /\ stage = "loading" /\ lm.err = "no options generated" /\ exitCode = 1

\* C2: a generation result with N >= 1 candidates replaces the Progress
\* Stage by a Selection Stage holding exactly those candidates in order,
\* cursor 0, nothing selected, safety pass not completed, with the safety
\* evaluation and the spinner tick started; the Progress Stage never
\* comes back.
C2_SuccessEntersSelection ==
  /\ [][DeliverOptions /\ ~OptionsMsgFails
          => /\ stage' = "selector"
             /\ Slice(heap', sm'.options) = Slice(heap, optionsMsg.options)
             /\ sm'.cursor = 0
             /\ sm'.selected = NilPtr
             /\ ~sm'.safetyDone
             /\ ~sm'.quitting
             /\ safetyCall'.active /\ safetyCall'.options = sm'.options
             /\ "selector" \in ticks']_vars
  /\ [][stage = "selector" => stage' = "selector" /\ lm' = NoLoadingModel]_vars

\* C2 witness: a Selection Stage was just built from a batch of two
C2_Witness ==
  /\ pc = "ui" /\ stage = "selector" /\ safetyCall.active
  /\ Len(Slice(heap, sm.options)) >= 2
  /\ Slice(heap, sm.options)[1].Command # Slice(heap, sm.options)[2].Command

\* C3: a safety-pass completion message that carries an error sets the
\* completed flag and leaves the candidates (title, command, description,
\* risk), the cursor and the selection as they were; a run that ends in the
\* Selection Stage exits zero, and while the stage runs the navigation and
\* enter keys stay enabled with the cursor on one of the candidates.
C3_SafetyFailureIsSilent ==
  /\ [][DeliverRisk /\ riskMsg.err # NoErr
          => /\ sm'.safetyDone
             /\ sm'.options = sm.options
             /\ Slice(heap', sm'.options) = Slice(heap, sm.options)
             /\ sm'.cursor = sm.cursor /\ sm'.selected = sm.selected
             /\ sm'.quitting = sm.quitting]_vars
  /\ [](pc = "done" /\ stage = "selector" => exitCode = 0)
  /\ [](pc = "ui" /\ stage = "selector"
          => /\ sm.cursor \in 0..(Len(Slice(heap, sm.options)) - 1)
             /\ ENABLED Key("up") /\ ENABLED Key("down") /\ ENABLED Key("enter"))

\* C3 witness: after a failed safety pass the user moved down and selected
C3_Witness ==
  /\ stage = "selector" /\ sm.safetyDone /\ sm.options = GenArr
  /\ sm.cursor = 1 /\ sm.selected = Ptr(GenArr, 1)

\* C4: once enter froze a candidate, the command the Output Dispatcher
\* receives is the command of the candidate under the cursor at that enter
\* key: the enter key freezes the candidate at the cursor, no later step
\* changes a field of the frozen selection, and the run ends by dispatching
\* it.
C4_DispatchGetsFrozenCommand ==
  /\ [][Key("enter") /\ stage = "selector"
          => Deref(heap', sm'.selected) = Slice(heap, sm.options)[sm.cursor + 1]]_vars
  /\ [][pc = "ui" /\ stage = "selector" /\ sm.selected # NilPtr
          => /\ Deref(heap', sm'.selected) = Deref(heap, sm.selected)
             /\ (pc' = "done" => dispatched' = <<Deref(heap, sm.selected)>>)]_vars

\* C5: the selected-candidate slot is written at most once: after an enter
\* key set it, no later message changes which candidate it designates.
C5_SelectedWrittenOnce ==
  [][stage = "selector" /\ sm.selected # NilPtr
       => sm'.selected.idx = sm.selected.idx]_vars

\* C6: the cursor stays within 0..len-1; up (or k) decrements it by one
\* unless it is 0, down (or j) increments it by one unless it is len-1, and
\* it never wraps around.
C6_CursorClamped ==
  /\ [](stage = "selector"
          => sm.cursor >= 0 /\ sm.cursor <= Len(Slice(heap, sm.options)) - 1)
  /\ [][(Key("up") \/ Key("k")) /\ stage = "selector"
          => sm'.cursor = IF sm.cursor = 0 THEN 0 ELSE sm.cursor - 1]_vars
  /\ [][(Key("down") \/ Key("j")) /\ stage = "selector"
          => sm'.cursor = IF sm.cursor = Len(Slice(heap, sm.options)) - 1
                            THEN sm.cursor ELSE sm.cursor + 1]_vars

\* C6 witness: the cursor was moved down to the last of two or more
\* candidates
C6_Witness ==
  /\ pc = "ui" /\ stage = "selector"
  /\ sm.cursor >= 1 /\ sm.cursor = Len(Slice(heap, sm.options)) - 1

\* C7: a safety-pass completion message that carries a result replaces the
\* batch by one of the same length whose titles, commands and descriptions
\* are equal position by position, sets the completed flag and leaves the
\* cursor and the quitting flag unchanged.
C7_SafetyResultOverlaysRisk ==
  [][DeliverRisk /\ riskMsg.err = NoErr
       => LET old == Slice(heap, sm.options)
              new == Slice(heap', sm'.options)
          IN /\ sm'.options = riskMsg.options
             /\ Len(new) = Len(old)
             /\ \A i \in 1..Len(old) :
                  /\ new[i].Title = old[i].Title
                  /\ new[i].Command = old[i].Command
                  /\ new[i].Description = old[i].Description
             /\ sm'.safetyDone
             /\ sm'.cursor = sm.cursor
             /\ sm'.quitting = sm.quitting]_vars

\* C7 witness: an annotated batch of two replaced the list while the cursor
\* was on the second candidate
C7_Witness ==
  /\ stage = "selector" /\ sm.safetyDone /\ sm.options = EvalArr /\ sm.cursor = 1
  /\ \E i \in 1..Len(heap[EvalArr]) : heap[EvalArr][i].Risk.present

\* a quit key was handled and no candidate was selected before it: nothing
\* but a quit key sets quitMsg while the stage error and the slot are empty
UserQuit ==
  pc = "ui" /\ quitMsg /\ lm.err = NoErr /\ sm.selected = NilPtr

\* C8: after a user-initiated quit (Esc/Ctrl+C in the Input Stage, q/Ctrl+C
\* in the Progress Stage or in the Selection Stage before a selection) the
\* run ends with the selected-candidate slot empty, the Output Dispatcher
\* never invoked and exit code zero.
C8_QuitEndsWithoutSelection ==
  [][UserQuit
       => /\ sm'.selected = NilPtr
          /\ (pc' = "done" => exitCode' = 0 /\ dispatched' = <<>>)]_vars

\* C9 as stated: generate returns an error, and no batch, whenever the
\* generation call returns an error or a batch of size 0; so no generation
\* result is a success with an empty batch.
C9_EmptyBatchIsError ==
  [][\A resp \in ClientResponses :
       LoadOptionsReturnsWith(resp) /\ (resp.Err # NoErr \/ Len(resp.Response) = 0)
         => optionsMsg'.err # NoErr /\ optionsMsg'.options = Nil]_vars

\* C9 amended: generate returns an error, and no batch, whenever the
\* generation call returns an error; when the call returns no error,
\* generate returns no error and a batch as long as the response, the
\* empty batch included.
C9_ErrorIffClientError ==
  [][\A resp \in ClientResponses :
       LoadOptionsReturnsWith(resp)
         => IF resp.Err # NoErr
              THEN optionsMsg'.err # NoErr /\ optionsMsg'.options = Nil
              ELSE /\ optionsMsg'.err = NoErr
                   /\ optionsMsg'.options # Nil
                   /\ Len(Slice(heap', optionsMsg'.options)) = Len(resp.Response)]_vars

\* C9 witness: the generation result is a success with an empty batch
C9_Witness ==
  /\ optionsMsg.present /\ optionsMsg.err = NoErr
  /\ optionsMsg.options = GenArr /\ Len(heap[GenArr]) = 0

GeneratorReturned ==
  gen.pc = "returned" /\ gen.op \in {"Generate", "GenerateWithProgress"}

\* C11: for every query and every successful answer of the generation call
\* with N >= 1 records, generate returns a batch of exactly N candidates in
\* which candidate i has the title, command and description of record i.
C11_BatchMirrorsResponse ==
  GeneratorReturned /\ gen.client.Err = NoErr /\ Len(gen.client.Response) >= 1
    => /\ gen.err = NoErr
       /\ gen.options # Nil
       /\ Len(Slice(gen.heap, gen.options)) = Len(gen.client.Response)
       /\ \A i \in 1..Len(gen.client.Response) :
            LET o == Slice(gen.heap, gen.options)[i]
                c == gen.client.Response[i]
            IN o.Title = c.Title /\ o.Command = c.Command
               /\ o.Description = c.Description

\* C11 witness: Generate answered a two-record response whose records differ
C11_Witness ==
  /\ gen.pc = "returned" /\ gen.op = "Generate" /\ gen.err = NoErr
  /\ Len(gen.client.Response) = 2
  /\ gen.client.Response[1] # gen.client.Response[2]
  /\ Len(Slice(gen.heap, gen.options)) = 2

\* C12: Generate passes the query unchanged to the generation client,
\* exactly once; it returns an error if and only if the client returned one;
\* an empty batch without error from the client gives an empty batch and no
\* error.
C12_QueryPassedOnceErrorIffClientError ==
  GeneratorReturned
    => /\ gen.client.LastQuery = gen.query
       /\ gen.client.Calls = 1
       /\ (gen.err # NoErr) <=> (gen.client.Err # NoErr)
       /\ (gen.client.Err = NoErr /\ Len(gen.client.Response) = 0
             => gen.err = NoErr /\ Len(Slice(gen.heap, gen.options)) = 0)

\* C12 witness: Generate returned for a query with a space in it that the
\* client answered with an empty batch and no error
C12_Witness ==
  /\ gen.pc = "returned" /\ gen.op = "Generate"
  /\ gen.query = <<"q", " ", "j">> /\ gen.client.LastQuery = <<"q", " ", "j">>
  /\ gen.client.Err = NoErr /\ gen.client.Response = <<>>
  /\ gen.err = NoErr

\* the caller's EvaluateSafety call (or its second one) has returned
SafetyReturned == gen.pc = "returned" /\ gen.op = "EvaluateSafety"

\* C13: EvaluateSafety never mutates the batch it is given: after it returns,
\* with a batch or with an error, every candidate of the input batch has the
\* title, command, description and risk it had before; a returned batch is
\* another array than the input, equal to it except for overlaid risks.
C13_InputBatchUntouched ==
  SafetyReturned
    => /\ gen.heap[GenArr] = gen.input
       /\ gen.err # NoErr => gen.options = Nil
       /\ gen.err = NoErr /\ gen.again = "no"
            => /\ gen.options \notin {Nil, GenArr}
               /\ Len(gen.heap[gen.options]) = Len(gen.input)
               /\ \A i \in 1..Len(gen.input) :
                    \/ gen.heap[gen.options][i] = gen.input[i]
                    \/ /\ gen.heap[gen.options][i].Risk.present
                       /\ gen.heap[gen.options][i]
                            = [gen.input[i] EXCEPT !.Risk = gen.heap[gen.options][i].Risk]

\* C13 witness: a returned batch carries a risk its input candidate did not
C13_Witness ==
  /\ SafetyReturned /\ gen.err = NoErr /\ gen.again = "no"
  /\ \E i \in 1..Len(gen.input) :
       gen.heap[gen.options][i].Risk # gen.input[i].Risk
  /\ gen.heap[GenArr] = gen.input

\* the caller's first EvaluateSafety call returned a batch
SafetySucceeded == SafetyReturned /\ gen.err = NoErr /\ gen.again = "no"

\* the evaluator's level for candidate i of the call that returned a batch
EvaluatorLevel(i) == parseRiskLevel(gen.api.Evaluations[i].RiskLevel)

\* the returned batch has the input's length and, position by position,
\* its title, command and description
SameLengthAndOrder ==
  /\ Len(Slice(gen.heap, gen.options)) = Len(gen.input)
  /\ \A i \in 1..Len(gen.input) :
       LET o == Slice(gen.heap, gen.options)[i]
       IN o.Title = gen.input[i].Title /\ o.Command = gen.input[i].Command
          /\ o.Description = gen.input[i].Description

\* C14 as stated: for all candidate batches a successful EvaluateSafety
\* returns a batch of the input's length and order in which every candidate
\* the evaluator rated none has an absent risk field.
C14_NoneMeansAbsent ==
  SafetySucceeded
    => /\ SameLengthAndOrder
       /\ \A i \in 1..Len(gen.input) :
            EvaluatorLevel(i) = RiskNone => ~Slice(gen.heap, gen.options)[i].Risk.present

\* C14 amended: for all candidate batches a successful EvaluateSafety
\* returns a batch of the input's length and order in which every candidate
\* the evaluator rated none has the risk field its input candidate had:
\* absent if that was absent, the existing annotation otherwise.
C14_NoneKeepsInputRisk ==
  SafetySucceeded
    => /\ SameLengthAndOrder
       /\ \A i \in 1..Len(gen.input) :
            EvaluatorLevel(i) = RiskNone
              => Slice(gen.heap, gen.options)[i].Risk = gen.input[i].Risk

\* C14 witness: a batch came back in which one candidate rated none had no
\* risk before and another rated none had one
C14_Witness ==
  /\ SafetySucceeded
  /\ \E i, j \in 1..Len(gen.input) :
       /\ EvaluatorLevel(i) = RiskNone /\ ~gen.input[i].Risk.present
       /\ EvaluatorLevel(j) = RiskNone /\ gen.input[j].Risk.present
       /\ Slice(gen.heap, gen.options)[j].Risk = gen.input[j].Risk

\* C15: EvaluateSafety is idempotent: a second call with the same evaluator
\* answer, on the same input batch or on the batch the first call returned,
\* returns a batch equal field by field to the first call's.
C15_SecondCallSameBatch ==
  SafetyReturned /\ gen.again # "no"
    => /\ gen.err = NoErr
       /\ gen.options # Nil
       /\ Slice(gen.heap, gen.options) = gen.first

\* C15 witness: EvaluateSafety was applied to its own output, a batch in
\* which the first call had attached a risk
C15_Witness ==
  /\ SafetyReturned /\ gen.again = "output" /\ gen.err = NoErr
  /\ \E i \in 1..Len(gen.input) :
       gen.first[i].Risk # gen.input[i].Risk /\ gen.first[i].Risk.present
  /\ Slice(gen.heap, gen.options) = gen.first

\* the caller's Evaluate call has returned
EvaluateReturned == gen.pc = "returned" /\ gen.op = "Evaluate"

\* C16: for an empty command batch the Risk Evaluator returns an empty
\* result and no error without making an external call, even when its
\* client is nil; EvaluateSafety on an empty candidate batch returns an
\* empty batch and no error.
C16_EmptyBatchNoCall ==
  /\ EvaluateReturned /\ Len(gen.input) = 0
       => gen.err = NoErr /\ gen.risks = <<>> /\ gen.apiCalls = 0
  /\ SafetyReturned /\ Len(gen.input) = 0
       => /\ gen.err = NoErr /\ gen.apiCalls = 0
          /\ gen.options # Nil /\ Len(gen.heap[gen.options]) = 0

\* C16 witness: Evaluate returned for no commands on an evaluator without
\* client, whose safety call would have failed
C16_Witness ==
  /\ EvaluateReturned /\ gen.input = <<>> /\ gen.clientIsNil
  /\ gen.api.kind = "callfail" /\ gen.err = NoErr

\* the safety call of the returned call was made and failed, or answered
\* with another number of evaluations than commands were sent
SafetyCallFailed ==
  /\ Len(gen.input) > 0
  /\ ~gen.clientIsNil
  /\ gen.api.kind # "ok" \/ Len(gen.api.Evaluations) # Len(gen.input)

\* C17: when the safety call fails, or returns a number of evaluations
\* different from the number of commands sent, the Risk Evaluator returns an
\* error and no annotations, and EvaluateSafety returns that error and no
\* batch.
C17_FailedSafetyCallGivesErrorOnly ==
  /\ EvaluateReturned /\ SafetyCallFailed
       => gen.err # NoErr /\ gen.risks = <<>> /\ gen.apiCalls = 1
  /\ SafetyReturned /\ SafetyCallFailed
       => /\ gen.err # NoErr
          /\ gen.err = Evaluate([i \in 1..Len(gen.input) |-> gen.input[i].Command],
                                gen.clientIsNil, gen.api).err
          /\ gen.options = Nil

\* C17 witness: EvaluateSafety returned after a safety call that answered
\* one evaluation for two commands
C17_Witness ==
  /\ SafetyReturned /\ ~gen.clientIsNil /\ Len(gen.input) = 2
  /\ gen.api.kind = "ok" /\ Len(gen.api.Evaluations) = 1
  /\ gen.api.Evaluations[1].RiskLevel = "high"
  /\ gen.err = "unexpected number of evaluations" /\ gen.options = Nil

\* the caller's GenerateWithProgress call has returned
GWPReturned == gen.pc = "returned" /\ gen.op = "GenerateWithProgress"

\* the safety evaluation of the returned GenerateWithProgress call failed:
\* no evaluator client, a failed safety call or a wrong number of evaluations
GWPSafetyFailed ==
  /\ gen.client.Err = NoErr
  /\ Len(gen.client.Response) > 0
  /\ \/ gen.clientIsNil
     \/ gen.api.kind # "ok"
     \/ Len(gen.api.Evaluations) # Len(gen.client.Response)

\* C18: in GenerateWithProgress a failure of the safety evaluation, a nil
\* evaluator client included, never makes the operation fail: it returns the
\* full generated batch with no error and with every candidate's risk
\* absent.
C18_SafetyFailureKeepsBatch ==
  GWPReturned /\ GWPSafetyFailed
    => /\ gen.err = NoErr
       /\ gen.options # Nil
       /\ Slice(gen.heap, gen.options)
            = [i \in 1..Len(gen.client.Response) |->
                 Option(gen.client.Response[i].Title, gen.client.Response[i].Command,
                        gen.client.Response[i].Description, NilRisk)]

\* C18 witness: GenerateWithProgress returned two candidates from a
\* Generator with no evaluator client, and also made no external safety call
C18_Witness ==
  /\ GWPReturned /\ gen.clientIsNil /\ Len(gen.client.Response) = 2
  /\ gen.err = NoErr /\ Len(Slice(gen.heap, gen.options)) = 2
  /\ gen.evals = 1 /\ gen.apiCalls = 0

\* C19: with a callback supplied, GenerateWithProgress invokes it exactly
\* once, with the Evaluating marker, in a run whose generation call succeeds,
\* after the generation call has returned and before the safety call is
\* made, and not at all in a run whose generation call fails.
C19_CallbackOnceBeforeSafety ==
  /\ [](GWPReturned /\ gen.hasProgress
          => gen.notified = IF gen.client.Err = NoErr THEN <<StageEvaluating>>
                            ELSE <<>>)
  /\ [](gen.op = "GenerateWithProgress" /\ gen.hasProgress /\ gen.evals > 0
          => gen.notified = <<StageEvaluating>>)
  /\ [][Len(gen'.notified) > Len(gen.notified)
          => /\ gen.client.Calls = 1 /\ gen.client.Err = NoErr
             /\ gen.evals = 0 /\ gen'.evals = 0 /\ gen'.apiCalls = 0]_vars

\* C19 witness: a run with a callback returned after one notification and
\* one safety call
C19_Witness ==
  /\ GWPReturned /\ gen.hasProgress /\ gen.client.Err = NoErr
  /\ gen.notified = <<StageEvaluating>> /\ gen.evals = 1 /\ gen.apiCalls = 1

\* the progress channel cannot take a notification now: nobody is receiving
\* and its buffer is full
ReceiverNotReady == ~gen.receiving /\ Len(gen.chan) >= ProgressChanCap

\* C20: delivering the stage-change notification never blocks the pipeline:
\* when the receiver is not ready to take it, the notification is dropped,
\* and GenerateWithProgress still goes on to the safety call and returns.
C20_NotificationNeverBlocks ==
  /\ [](gen.pc = "notify" => ENABLED GWPNotify)
  /\ [](gen.pc = "evaluate" => ENABLED GWPReturn)
  /\ [][GWPNotify /\ gen.hasProgress /\ ReceiverNotReady
          => /\ gen'.dropped = gen.dropped + 1
             /\ gen'.chan = gen.chan /\ gen'.received = gen.received
             /\ gen'.pc = "evaluate"]_vars
  /\ [][GWPReturn => gen'.pc = "returned" /\ gen'.evals = gen.evals + 1]_vars

\* C20 witness: a run returned its batch after its notification was dropped
\* at a full channel nobody was receiving from
C20_Witness ==
  /\ GWPReturned /\ gen.hasProgress /\ gen.dropped = 1
  /\ gen.notified = <<StageEvaluating>> /\ gen.chan # <<>> /\ ~gen.receiving
  /\ gen.err = NoErr /\ gen.evals = 1

\* C21: in the Progress Stage a stage-change notification indicating
\* Evaluating changes only the displayed message, from generating to
\* evaluating, and never ends the stage or constructs the Selection Stage;
\* only the generation result makes the stage end or hand over.
C21_NotificationChangesMessageOnly ==
  /\ [][DeliverNote /\ stage = "loading" /\ lm.err = NoErr
          => /\ LoadingView(lm) = "Generating options..."
             /\ LoadingView(lm') = "Evaluating safety..."
             /\ stage' = "loading" /\ lm'.err = NoErr /\ lm'.query = lm.query
             /\ sm' = sm /\ quitMsg' = quitMsg]_vars
  /\ [][stage = "loading" /\ (stage' # "loading" \/ lm'.err # lm.err)
          => DeliverOptions]_vars

\* C22: in every run the generation call is made at most once and the
\* safety evaluation call at most once; so at most one safety-pass
\* completion message is ever delivered to the Selection Stage, and no call
\* is made again after a failure.
C22_EachCallAtMostOnce ==
  /\ [](started.loadOptions <= 1 /\ started.evaluateSafety <= 1 /\ evalCalls <= 1)
  /\ [](~(safetyCall.active /\ riskMsg.present))
  /\ [][DeliverRisk => ~sm.safetyDone /\ sm'.safetyDone]_vars
  /\ [][(DeliverOptions /\ optionsMsg.err # NoErr) \/ (DeliverRisk /\ riskMsg.err # NoErr)
          => started' = started /\ ~genCall'.active /\ ~safetyCall'.active]_vars

\* C22 witness: the run ended after a failed safety pass whose completion
\* message was delivered, with one generation call and one safety call made
C22_Witness ==
  /\ pc = "done" /\ stage = "selector" /\ sm.safetyDone /\ sm.options = GenArr
  /\ started = [loadOptions |-> 1, evaluateSafety |-> 1] /\ evalCalls = 1

\* a query that has at least one character other than a space
NotBlank(query) == \E i \in 1..Len(query) : query[i] # " "

\* C23: in every run the query the generation call is invoked with is
\* neither empty nor whitespace-only, whether it was typed in the Input
\* Stage or given as trailing command-line arguments.
C23_QueryNeverBlank ==
  genCall.active => NotBlank(genCall.query)

\* C24: in the Input Stage an enter key with an empty text buffer causes no
\* transition: the stage stays the Input Stage, the submitted flag stays
\* false and no generation is started; with a non-empty buffer it hands over
\* to a Progress Stage whose query is the buffer content at that moment.
C24_EnterSubmitsNonEmptyBuffer ==
  [][Key("enter") /\ stage = "input"
       => IF im.value = <<>>
            THEN /\ stage' = "input" /\ ~im'.submitted /\ im'.value = <<>>
                 /\ started' = started /\ ~genCall'.active
            ELSE /\ stage' = "loading" /\ lm'.query = im.value /\ lm'.err = NoErr
                 /\ genCall'.active /\ genCall'.query = im.value
                 /\ started'.loadOptions = 1]_vars

\* C24 witness: the Progress Stage runs with a query that was typed
C24_Witness ==
  pc = "ui" /\ stage = "loading" /\ lm.query = <<"k">> /\ genCall.active

\* a quit key was handled in the Progress Stage and its QuitMsg has not
\* reached the event loop yet (a failed generation also quits, but sets the
\* stage error)
QuitPendingInProgressStage ==
  pc = "ui" /\ stage = "loading" /\ quitMsg /\ lm.err = NoErr

\* C25: after a quit key is handled in the Progress Stage while the
\* generation call is still in flight, the generation result, whenever it
\* arrives, is discarded: it never constructs a Selection Stage, never sets
\* the stage error and never leads to a dispatch.
C25_ResultAfterQuitDiscarded ==
  [][QuitPendingInProgressStage
       => /\ stage' = "loading" /\ sm' = NoSelectorModel
          /\ lm'.err = NoErr
          /\ started'.evaluateSafety = 0
          /\ dispatched' = <<>>
          /\ (pc' = "done" => exitCode' = 0)]_vars

\* run() hands the selected option to Handler.Output in this step
Dispatches == pc' = "done" /\ dispatched' # <<>> /\ DeliverQuit

\* C26: in ShellFunction mode dispatch writes to the primary output channel
\* exactly the selected command text followed by one newline and nothing
\* else, for every selected command.
C26_ShellFunctionWritesCommandLine ==
  [][Dispatches /\ outputMode = ModeShellFunction
       => /\ dispatched' = <<Deref(heap, sm.selected)>>
          /\ stdout' = <<Printed("%s\n", Deref(heap, sm.selected).Command)>>
          /\ clipTried' = <<>>
          /\ exitCode' = 0]_vars

\* C26 witness: a shell-function run ended with the line of the second
\* candidate's command on the primary output channel
C26_Witness ==
  /\ pc = "done" /\ outputMode = ModeShellFunction /\ sm.selected.idx = 1
  /\ stdout = <<Printed("%s\n", Deref(heap, sm.selected).Command)>>

\* the run is over and its final model holds a selected candidate
EndedWithSelection ==
  pc = "done" /\ stage = "selector" /\ sm.selected # NilPtr

\* C27: in shell-function mode the primary output channel holds, over the
\* whole run, either exactly the selected command followed by a newline
\* (when a candidate was selected) or nothing at all (when the user quit at
\* any stage); the no-option-selected message is never written to it.
C27_ShellFunctionChannelClean ==
  outputMode = ModeShellFunction
    => /\ stdout = IF EndedWithSelection
                     THEN <<Printed("%s\n", Deref(heap, sm.selected).Command)>>
                     ELSE <<>>
       /\ \A i \in 1..Len(stdout) : stdout[i].text # "No option selected\n"

\* C27 witness: a shell-function run ended in the Selection Stage by a quit
\* key, with nothing selected and nothing written
C27_Witness ==
  /\ pc = "done" /\ outputMode = ModeShellFunction /\ exitCode = 0
  /\ stage = "selector" /\ sm.quitting /\ sm.selected = NilPtr /\ stdout = <<>>

\* the order in which the clipboard backends are to be attempted
ClipboardOrder == <<"pbcopy", "xclip", "wl-copy">>

\* position in ClipboardOrder of the first backend that succeeds under ok,
\* 0 when none does
FirstSuccess(ok) ==
  IF \E i \in 1..Len(ClipboardOrder) : ok[ClipboardOrder[i]]
    THEN CHOOSE i \in 1..Len(ClipboardOrder) :
           /\ ok[ClipboardOrder[i]]
           /\ \A j \in 1..(i - 1) : ~ok[ClipboardOrder[j]]
    ELSE 0

\* C28: in Clipboard mode the backends are attempted in the order pbcopy,
\* xclip, wl-copy; the first backend that succeeds ends the attempt sequence
\* (no later backend is tried), and exactly one copied-to-clipboard
\* confirmation containing the command is then printed.
C28_BackendsInOrderUntilFirstSuccess ==
  [][pc' = "done" /\ dispatched' # <<>> /\ outputMode = ModeClipboard
       => \A ok \in [Backends -> BOOLEAN] :
         DeliverQuitWith(ok)
         => /\ clipTried' = SubSeq(ClipboardOrder, 1,
                                   IF FirstSuccess(ok) = 0 THEN Len(ClipboardOrder)
                                   ELSE FirstSuccess(ok))
            /\ FirstSuccess(ok) # 0
                 => stdout' = <<Printed("\nCopied to clipboard: %s\n",
                                        dispatched'[1].Command)>>]_vars

\* C28 witness: a Clipboard-mode run dispatched, pbcopy failed, xclip
\* succeeded, wl-copy was not tried and one confirmation was printed
C28_Witness ==
  /\ pc = "done" /\ outputMode = ModeClipboard /\ Len(dispatched) = 1
  /\ clipTried = <<"pbcopy", "xclip">>
  /\ stdout = <<Printed("\nCopied to clipboard: %s\n", dispatched[1].Command)>>

\* C29: in Clipboard mode, when every clipboard backend fails, dispatch
\* prints a clipboard-unavailable notice followed by the Stdout-mode
\* rendering containing the command text, and returns no error; a dispatch
\* never makes the process exit non-zero.
C29_ClipboardFallsBackToStdout ==
  [][pc' = "done" /\ dispatched' # <<>>
       => /\ exitCode' = 0
          /\ outputMode = ModeClipboard
               => \A ok \in [Backends -> BOOLEAN] :
                    DeliverQuitWith(ok) /\ (\A b \in Backends : ~ok[b])
                 => /\ stdout' = <<Printed("\nClipboard not available\n", ""),
                                   Printed("\nSelected command:\n%s\n",
                                           dispatched'[1].Command)>>
                    /\ stdout'[2] = outputStdout(dispatched'[1]).out[1]
                    /\ clipTried' = ClipboardOrder]_vars

\* C29 witness: a Clipboard-mode run dispatched, all three backends failed,
\* the notice and the rendering were printed and the exit code is 0
C29_Witness ==
  /\ pc = "done" /\ outputMode = ModeClipboard /\ Len(dispatched) = 1
  /\ clipTried = <<"pbcopy", "xclip", "wl-copy">>
  /\ Len(stdout) = 2 /\ stdout[1].text = "\nClipboard not available\n"
  /\ stdout[2].command = dispatched[1].Command
  /\ exitCode = 0

\* C30: for every mode value other than shell-function and stdout
\* (clipboard and any unrecognized value), dispatch behaves exactly as
\* Clipboard mode does for the same command and the same backend outcomes:
\* same backends tried, same text printed, same exit code.
C30_OtherModesAreClipboard ==
  [][pc' = "done" /\ dispatched' # <<>>
     /\ outputMode \notin {ModeShellFunction, ModeStdout}
       => \A ok \in [Backends -> BOOLEAN] :
         DeliverQuitWith(ok)
         => /\ clipTried' = outputClipboard(dispatched'[1], ok).tried
            /\ stdout' = outputClipboard(dispatched'[1], ok).out
            /\ exitCode' = 0
            /\ clipTried' # <<>>]_vars

\* C30 witness: a run started with an unrecognized mode value dispatched
\* and went through the clipboard backends
C30_Witness ==
  /\ pc = "done" /\ outputMode \notin {ModeClipboard, ModeShellFunction, ModeStdout}
  /\ Len(dispatched) = 1 /\ clipTried # <<>> /\ stdout # <<>>

\* the configuration of this run supplies no API key
NoApiKey == Load(cfg).err = NoErr /\ Load(cfg).cfg.AnthropicAPIKey = ""

\* C31: when the configuration supplies no API key (also when the file does
\* not exist and the defaults are used), the run fails with a non-zero exit
\* before any stage is started: no Input, Progress or Selection Stage runs
\* and neither external call is made.
C31_NoApiKeyFailsAtStartup ==
  NoApiKey
    => /\ pc \in {"start", "done"}
       /\ stage = "none"
       /\ started = NoneStarted
       /\ ~genCall.active /\ ~safetyCall.active
       /\ evalCalls = 0
       /\ dispatched = <<>>
       /\ pc = "done" => exitCode # 0

\* C31 witness: a run without configuration file has ended with exit code 1
C31_Witness ==
  /\ cfg = "nofile" /\ NoApiKey /\ pc = "done" /\ exitCode = 1 /\ stage = "none"

\* the stages in the order in which a run may enter them
StageRank(s) ==
  CASE s = "none" -> 0 [] s = "input" -> 1 [] s = "loading" -> 2 [] s = "selector" -> 3

\* C32: the output dispatcher is invoked at most once per run, and only
\* when the Selection Stage has ended with its selected-candidate slot set,
\* never on a run that ended in the Input Stage or the Progress Stage; the
\* stages are entered only in the order Input, Progress, Selection, never
\* backwards.
C32_DispatchOnceStagesForward ==
  [][/\ Len(dispatched') <= 1
     /\ dispatched' # dispatched
          => /\ dispatched = <<>>
             /\ pc = "ui" /\ pc' = "done"
             /\ stage = "selector" /\ sm.selected # NilPtr
             /\ dispatched' = <<Deref(heap, sm.selected)>>
     /\ pc' = "done" /\ stage \in {"none", "input", "loading"} => dispatched' = <<>>
     /\ stage' # stage
          => \/ stage = "none" /\ stage' \in {"input", "loading"}
             \/ stage = "input" /\ stage' = "loading"
             \/ stage = "loading" /\ stage' = "selector"
     /\ StageRank(stage') >= StageRank(stage)]_vars

\* C32 witness: a run that started both background commands and ended in
\* the Selection Stage with a selection has dispatched one option
C32_Witness ==
  /\ pc = "done" /\ stage = "selector" /\ sm.selected # NilPtr
  /\ started = [loadOptions |-> 1, evaluateSafety |-> 1]
  /\ dispatched = <<Deref(heap, sm.selected)>>

\* the event loop hands the Selection Stage a tick of its own spinner
SelectorTickHandled == stage = "selector" /\ DeliverTick("selector")

ShownFor(i) ==
  LET v == SelectorView(sm, heap)
  IN IF v.blank \/ i > Len(v.entries) THEN [what |-> "nothing", message |-> ""]
     ELSE IF v.entries[i].riskWarning.kind \in {"low", "high"}
       THEN [what |-> "warning", message |-> v.entries[i].riskWarning.message]
     ELSE IF v.entries[i].riskWarning.kind = "checking"
       THEN [what |-> "checking", message |-> ""]
     ELSE [what |-> "nothing", message |-> ""]

\* the rendering rule for candidate i of the Selection Stage
RenderingRule(i) ==
  LET option == Slice(heap, sm.options)[i]
  IN ShownFor(i) =
       IF option.Risk.present
         THEN [what |-> "warning", message |-> option.Risk.Message]
       ELSE IF ~sm.safetyDone THEN [what |-> "checking", message |-> ""]
       ELSE [what |-> "nothing", message |-> ""]

\* the Selection Stage is on screen
InSelectionStage == pc = "ui" /\ stage = "selector"

\* C34 as stated: in every Selection Stage state the rendering follows the
\* rule for every candidate. It does not after a quit key: the view is then
\* the empty string, whatever the candidates carry.
C34_RuleInEveryState ==
  InSelectionStage => \A i \in 1..Len(Slice(heap, sm.options)) : RenderingRule(i)

\* C34: in every Selection Stage state other than the one left by a quit
\* key without selection, the rendering shows for every candidate the risk
\* warning when its risk is present, the checking placeholder when the risk
\* is absent and the safety pass has not completed, and neither when the
\* risk is absent and the pass has completed; after a quit key without
\* selection nothing at all is rendered.
C34_RuleWhileRendered ==
  InSelectionStage
    => IF sm.quitting /\ sm.selected = NilPtr
         THEN /\ SelectorView(sm, heap).blank
              /\ \A i \in 1..Len(Slice(heap, sm.options)) : ShownFor(i).what = "nothing"
         ELSE /\ Len(SelectorView(sm, heap).entries) = Len(Slice(heap, sm.options))
              /\ \A i \in 1..Len(Slice(heap, sm.options)) : RenderingRule(i)

\* C34 witness: the pass has completed, one candidate carries a risk and is
\* shown with its warning, another carries none and is shown with nothing
C34_Witness ==
  /\ InSelectionStage /\ sm.safetyDone /\ ~sm.quitting
  /\ \E i, j \in 1..Len(Slice(heap, sm.options)) :
       /\ Slice(heap, sm.options)[i].Risk.present
       /\ ShownFor(i).what = "warning"
       /\ ~Slice(heap, sm.options)[j].Risk.present
       /\ ShownFor(j).what = "nothing"

\* the level the claim assigns to a risk level string
ClaimedLevel(level) ==
  IF level = "low" THEN RiskLow ELSE IF level = "high" THEN RiskHigh ELSE RiskNone

\* C35: parseRiskLevel maps "low" to Low, "high" to High and every other
\* string ("none", the empty string, an unrecognized value) to None, so an
\* evaluation with an unrecognized risk level yields an absent annotation
\* and no error.
C35_UnrecognizedLevelIsNone ==
  /\ gen.pc = "returned" /\ gen.op = "parseRiskLevel"
       => gen.parsed = ClaimedLevel(gen.level)
  /\ EvaluateReturned /\ gen.api.kind = "ok" /\ ~gen.clientIsNil
     /\ Len(gen.api.Evaluations) = Len(gen.input)
       => /\ gen.err = NoErr
          /\ Len(gen.risks) = Len(gen.input)
          /\ \A i \in 1..Len(gen.input) :
               gen.risks[i] =
                 IF ClaimedLevel(gen.api.Evaluations[i].RiskLevel) = RiskNone
                   THEN NilRisk
                   ELSE RiskInfo(ClaimedLevel(gen.api.Evaluations[i].RiskLevel),
                                 gen.api.Evaluations[i].Reason)

\* C35 witness: Evaluate returned for a batch one of whose commands was
\* rated with an unrecognized level and got no annotation, while another
\* was rated high and got one
C35_Witness ==
  /\ EvaluateReturned /\ gen.err = NoErr
  /\ \E i, j \in 1..Len(gen.input) :
       /\ gen.api.Evaluations[i].RiskLevel = "invalid" /\ gen.risks[i] = NilRisk
       /\ gen.api.Evaluations[j].RiskLevel = "high" /\ gen.risks[j].present

\* the selected slot was written by an enter key handled before the
\* safety-pass completion message: either that message was not handled yet,
\* or it replaced the batch and the slot still points into the batch it
\* replaced
FrozenBeforeCompletion ==
  /\ InSelectionStage /\ sm.selected # NilPtr
  /\ ~sm.safetyDone \/ sm.selected.arr # sm.options

\* C36: an enter key handled in the Selection Stage before the safety-pass
\* completion message freezes the candidate at the cursor and ends the
\* stage, and the frozen selection then carries no risk annotation whatever
\* the evaluator reports later.
C36_EarlySelectionStaysUnannotated ==
  [][/\ InSelectionStage /\ ~sm.safetyDone /\ Key("enter")
          => /\ sm'.selected = Ptr(sm.options, sm.cursor)
             /\ quitMsg'
             /\ ~Deref(heap', sm'.selected).Risk.present
     /\ FrozenBeforeCompletion
          => /\ sm'.selected # NilPtr
             /\ ~Deref(heap', sm'.selected).Risk.present]_vars

\* C37: the Selection Stage never holds an empty candidate batch, so the
\* index used by the enter key (the cursor) is always within the bounds of
\* the batch and the selected slot, once written, points at a candidate.
C37_SelectionBatchNeverEmpty ==
  stage = "selector"
    => /\ Len(Slice(heap, sm.options)) >= 1
       /\ sm.cursor \in 0..(Len(Slice(heap, sm.options)) - 1)
       /\ sm.selected # NilPtr
            => sm.selected.idx \in 0..(Len(Slice(heap, sm.selected.arr)) - 1)

\* C37 witness: the batch of the Selection Stage was replaced by the result
\* of the safety pass, the cursor was moved to its last candidate and enter
\* selected it
C37_Witness ==
  /\ InSelectionStage /\ sm.safetyDone /\ sm.options = EvalArr
  /\ sm.cursor = Len(Slice(heap, sm.options)) - 1 /\ sm.cursor > 0
  /\ sm.selected = Ptr(EvalArr, sm.cursor)

\* candidate o with the annotation the safety response ev gives it: the
\* response's level and reason when the level is low or high, else o's own
\* risk field
Overlaid(o, ev) ==
  IF ev.RiskLevel = "low" THEN [o EXCEPT !.Risk = RiskInfo(RiskLow, ev.Reason)]
  ELSE IF ev.RiskLevel = "high" THEN [o EXCEPT !.Risk = RiskInfo(RiskHigh, ev.Reason)]
  ELSE o

\* C38: for every input batch and every successful evaluator result, the
\* batch returned by EvaluateSafety has at each position i the evaluator's
\* annotation when that is present with level Low or High, and otherwise
\* the risk field the input candidate had at i (an existing annotation is
\* never cleared); title, command and description at i equal the input's.
\* The same overlay is what GenerateWithProgress applies to the batch it
\* generated.
C38_OverlayPositionByPosition ==
  /\ SafetySucceeded
       => /\ Len(Slice(gen.heap, gen.options)) = Len(gen.input)
          /\ \A i \in 1..Len(gen.input) :
               Slice(gen.heap, gen.options)[i]
                 = Overlaid(gen.input[i], gen.api.Evaluations[i])
  /\ GWPReturned /\ gen.err = NoErr /\ ~GWPSafetyFailed
       => /\ Len(Slice(gen.heap, gen.options)) = Len(gen.client.Response)
          /\ \A i \in 1..Len(gen.client.Response) :
               LET c == gen.client.Response[i]
               IN Slice(gen.heap, gen.options)[i]
                    = Overlaid(Option(c.Title, c.Command, c.Description, NilRisk),
                               gen.api.Evaluations[i])

\* C38 witness: EvaluateSafety returned a batch in which a candidate that
\* carried an annotation got the evaluator's and another that carried one
\* and was rated none kept its own
C38_Witness ==
  /\ SafetySucceeded
  /\ \E i, j \in 1..Len(gen.input) :
       /\ gen.input[i].Risk.present /\ gen.api.Evaluations[i].RiskLevel = "high"
       /\ Slice(gen.heap, gen.options)[i].Risk = RiskInfo(RiskHigh, "why")
       /\ gen.input[j].Risk.present /\ gen.api.Evaluations[j].RiskLevel = "none"
       /\ Slice(gen.heap, gen.options)[j].Risk = gen.input[j].Risk

\* the generation call has returned, its result is on its way to the
\* Progress Stage and the user has not quit
GenerationResultPending ==
  pc = "ui" /\ stage = "loading" /\ optionsMsg.present /\ ~quitMsg

\* the Progress Stage has ended: replaced by a Selection Stage, or quit with
\* its error retained
ProgressStageEnded ==
  \/ stage = "selector"
  \/ stage = "loading" /\ lm.err # NoErr /\ (quitMsg \/ pc = "done")

\* C39: under fair delivery of messages, once the generation call has
\* returned while the user has not quit, the Progress Stage eventually
\* ends: it quits with an error retained or is replaced by a Selection
\* Stage, unless a quit key of the user ends the run first; it never stays
\* the Progress Stage forever.
C39_ProgressStageEventuallyEnds ==
  GenerationResultPending ~> (ProgressStageEnded \/ pc = "done")

\* C39 witness: the result of a failed generation call was handled, the
\* Progress Stage retains the error and has asked to quit
C39_Witness ==
  /\ pc = "ui" /\ stage = "loading" /\ lm.err # NoErr /\ quitMsg
  /\ ~optionsMsg.present /\ ~genCall.active /\ started.loadOptions = 1

\* the safety evaluation call has returned and its completion message is on
\* its way to the Selection Stage, which is still running
SafetyResultPending == InSelectionStage /\ riskMsg.present

\* the view shows the checking placeholder for no candidate
NoPlaceholderShown ==
  \A i \in 1..Len(Slice(heap, sm.options)) : ShownFor(i).what # "checking"

\* C40: under fair delivery of messages, once the safety evaluation call
\* has returned, with a result or with an error, while the Selection Stage
\* is running, the completed flag eventually becomes true, unless the run
\* ends first, and from then on it stays true, so that the checking
\* placeholder is eventually shown for no candidate.
C40_CompletedFlagEventuallySet ==
  /\ SafetyResultPending ~> (sm.safetyDone \/ pc = "done")
  /\ [][/\ sm.safetyDone => sm'.safetyDone
        /\ sm'.safetyDone => NoPlaceholderShown']_vars

\* C40 witness: the completion message of a failed safety call was handled:
\* the flag is set, the batch is the generated one and no placeholder is
\* shown
C40_Witness ==
  /\ InSelectionStage /\ ~sm.quitting /\ sm.safetyDone /\ sm.options = GenArr
  /\ started.evaluateSafety = 1 /\ ~safetyCall.active /\ ~riskMsg.present
  /\ NoPlaceholderShown

====
